---------------------------- MODULE Spec2Model ----------------------------
(***************************************************************************)
(* A model of the HomeSphere REST backend (Express route handlers over a   *)
(* Prisma/PostgreSQL store): the listing endpoints' filter building,       *)
(* pagination and count/fetch queries, the property and review life        *)
(* cycles, and the favourites join table.                                  *)
(*                                                                         *)
(* Strings are tuples of one-character strings, so that parseInt, Number,  *)
(* trim, toUpperCase and case-insensitive `contains` are computed and not  *)
(* assumed.  JavaScript numbers are records [k, v] with k one of "num",    *)
(* "nan", "inf".                                                           *)
(***************************************************************************)
EXTENDS Integers, Sequences, FiniteSets, TLC

(***************************************************************************)
(* Bounds of the model.                                                    *)
(***************************************************************************)
MaxProps == 3
MaxReviews == 2
MaxAgents == 2
MaxContacts == 2
MaxFavRequests == 3
MaxReviewRequests == 2
MaxUsers == 3
MaxTokens == 2
MaxLikeRequests == 2
MaxCalls == 2
MaxTime == 25

(***************************************************************************)
(* Characters and strings.                                                 *)
(***************************************************************************)
Lowers == <<"a","b","c","d","e","f","g","h","i","j","k","l","m",
            "n","o","p","q","r","s","t","u","v","w","x","y","z">>
Uppers == <<"A","B","C","D","E","F","G","H","I","J","K","L","M",
            "N","O","P","Q","R","S","T","U","V","W","X","Y","Z">>
Digits == <<"0","1","2","3","4","5","6","7","8","9">>

IndexIn(c, t) == IF \E i \in DOMAIN t : t[i] = c
                 THEN CHOOSE i \in DOMAIN t : t[i] = c
                 ELSE 0

IsDigit(c) == IndexIn(c, Digits) # 0
DigitVal(c) == IndexIn(c, Digits) - 1

LowerChar(c) == IF IndexIn(c, Uppers) # 0 THEN Lowers[IndexIn(c, Uppers)] ELSE c
UpperChar(c) == IF IndexIn(c, Lowers) # 0 THEN Uppers[IndexIn(c, Lowers)] ELSE c

\* String.prototype.toLowerCase / toUpperCase
ToLowerCase(s) == [i \in DOMAIN s |-> LowerChar(s[i])]
ToUpperCase(s) == [i \in DOMAIN s |-> UpperChar(s[i])]

RECURSIVE TrimLeft(_)
TrimLeft(s) == IF s # <<>> /\ Head(s) = " " THEN TrimLeft(Tail(s)) ELSE s

RECURSIVE TrimRight(_)
TrimRight(s) == IF s # <<>> /\ s[Len(s)] = " "
                THEN TrimRight(SubSeq(s, 1, Len(s) - 1))
                ELSE s

\* String.prototype.trim
Trim(s) == TrimRight(TrimLeft(s))

\* Does hay contain needle as a contiguous substring (needle "" always does).
ContainsStr(hay, needle) ==
    \E i \in 1..(Len(hay) + 1) :
        /\ i + Len(needle) - 1 <= Len(hay)
        /\ SubSeq(hay, i, i + Len(needle) - 1) = needle

\* Prisma { contains: needle, mode: 'insensitive' }  (ILIKE %needle%)
ContainsInsensitive(hay, needle) == ContainsStr(ToLowerCase(hay), ToLowerCase(needle))

(***************************************************************************)
(* JavaScript numbers.                                                     *)
(***************************************************************************)
Num(n) == [k |-> "num", v |-> n]
NaN == [k |-> "nan", v |-> 0]
Infinity == [k |-> "inf", v |-> 0]

IsNum(x) == x.k = "num"

RECURSIVE DigitsValue(_)
DigitsValue(s) == IF s = <<>> THEN 0
                  ELSE 10 * DigitsValue(SubSeq(s, 1, Len(s) - 1)) + DigitVal(s[Len(s)])

AllDigits(s) == s # <<>> /\ \A i \in DOMAIN s : IsDigit(s[i])

\* The longest prefix of s made of digits.
RECURSIVE DigitPrefix(_)
DigitPrefix(s) == IF s # <<>> /\ IsDigit(Head(s))
                  THEN <<Head(s)>> \o DigitPrefix(Tail(s))
                  ELSE <<>>

HasSign(s) == s # <<>> /\ Head(s) \in {"-", "+"}
Unsigned(s) == IF HasSign(s) THEN Tail(s) ELSE s
Signed(s, n) == IF s # <<>> /\ Head(s) = "-" THEN 0 - n ELSE n

\* Number(s): the coercion applied by the operators -, * and / to a string.
\* Blank is 0; an optionally signed run of digits is its value; the rest NaN.
ToNumber(s) ==
    LET t == Trim(s)
    IN  IF t = <<>> THEN Num(0)
        ELSE IF AllDigits(Unsigned(t)) THEN Num(Signed(t, DigitsValue(Unsigned(t))))
        ELSE NaN

\* parseInt(s): leading blanks skipped, optional sign, longest digit prefix.
ParseInt(s) ==
    LET t == TrimLeft(s)
        d == DigitPrefix(Unsigned(t))
    IN  IF d = <<>> THEN NaN ELSE Num(Signed(t, DigitsValue(d)))

\* parseFloat(s), on strings without a decimal point or exponent.
ParseFloat(s) == ParseInt(s)

JsSub(a, b) == IF IsNum(a) /\ IsNum(b) THEN Num(a.v - b.v) ELSE NaN
JsMul(a, b) == IF IsNum(a) /\ IsNum(b) THEN Num(a.v * b.v) ELSE NaN

\* Math.ceil(a / b) for a number a >= 0.
\* Math.floor in the place of Math.ceil.
FloorDiv(a, b) ==
    IF ~(IsNum(a) /\ IsNum(b)) THEN NaN
    ELSE IF b.v = 0 THEN (IF a.v = 0 THEN NaN ELSE Infinity)
    ELSE IF b.v > 0 THEN Num(a.v \div b.v)
    ELSE Num(0 - ((a.v + (0 - b.v) - 1) \div (0 - b.v)))

CeilDiv(a, b) ==
    IF ~(IsNum(a) /\ IsNum(b)) THEN NaN
    ELSE IF b.v = 0 THEN (IF a.v = 0 THEN NaN ELSE Infinity)
    ELSE IF b.v > 0 THEN Num((a.v + b.v - 1) \div b.v)
    ELSE Num(0 - (a.v \div (0 - b.v)))

(***************************************************************************)
(* String literals of the program and of the requests.                     *)
(***************************************************************************)
sEmpty == <<>>
sBlank == <<" ">>
sAll == <<"a","l","l">>
sUndefined == <<"u","n","d","e","f","i","n","e","d">>
sAbc == <<"a","b","c">>
sZero == <<"0">>
sOne == <<"1">>
sTwo == <<"2">>
sThree == <<"3">>
sMinusOne == <<"-","1">>
s150 == <<"1","5","0">>
s250 == <<"2","5","0">>

PENDING == <<"P","E","N","D","I","N","G">>
ACTIVE == <<"A","C","T","I","V","E">>
SOLD == <<"S","O","L","D">>
REJECTED == <<"R","E","J","E","C","T","E","D">>
APPROVED == <<"A","P","P","R","O","V","E","D">>
SUSPENDED == <<"S","U","S","P","E","N","D","E","D">>
sPendingLower == <<"p","e","n","d","i","n","g">>
sBogus == <<"B","O","G","U","S">>
StatusNEW == <<"N","E","W">>
CONTACTED == <<"C","O","N","T","A","C","T","E","D">>
QUALIFIED == <<"Q","U","A","L","I","F","I","E","D">>
CONVERTED == <<"C","O","N","V","E","R","T","E","D">>
ARCHIVED == <<"A","R","C","H","I","V","E","D">>

HOUSE == <<"H","O","U","S","E">>
CONDO == <<"C","O","N","D","O">>
LAND == <<"L","A","N","D">>
APARTMENT == <<"A","P","A","R","T","M","E","N","T">>
TOWNHOUSE == <<"T","O","W","N","H","O","U","S","E">>
COMMERCIAL == <<"C","O","M","M","E","R","C","I","A","L">>

ADMIN == <<"A","D","M","I","N">>
AGENT == <<"A","G","E","N","T">>
USER == <<"U","S","E","R">>

\* CREATE TYPE "VerificationStatus" / "ReviewStatus"; the property statuses the
\* handlers write; the contact workflow; the property types the validators accept.
VerificationStatuses == {PENDING, APPROVED, REJECTED, SUSPENDED}
ReviewStatuses == {PENDING, APPROVED, REJECTED}
PropertyStatuses == {PENDING, ACTIVE, SOLD, REJECTED}
ContactStatuses == {StatusNEW, CONTACTED, QUALIFIED, CONVERTED, ARCHIVED}
PropertyTypes == {HOUSE, APARTMENT, CONDO, TOWNHOUSE, LAND, COMMERCIAL}

tLagos == <<"L","a","g","o","s">>
tAbuja == <<"A","b","u","j","a">>
tLA == <<"L","A">>
tFC == <<"F","C">>
tVilla == <<"V","i","l","l","a">>
tFlat == <<"F","l","a","t">>
tDescription == <<"N","i","c","e"," ","p","l","a","c","e">>
tAddress == <<"1"," ","R","d",".">>
tZip == <<"1","0","0","0","1">>
tAda == <<"A","d","a">>
tObi == <<"O","b","i">>
tBola == <<"B","o","l","a">>
tAdmin == <<"A","d","m","i","n">>
tUserName == <<"U","s","e","r">>
tAdminEmail == <<"a","d","m","i","n","@","h","o","m","e","s","p","h","e","r","e",".","c","o","m">>
tAdaEmail == <<"a","d","a","@","x",".","n","g">>
tBolaEmail == <<"b","o","l","a","@","x",".","n","g">>
tReg1 == <<"R","E","G","-","1">>
tReg2 == <<"R","E","G","-","2">>
tRegShort == <<"R","1">>
tComment == <<"G","r","e","a","t"," ","p","l","a","c","e">>
tSubject == <<"H","e","l","l","o">>
tMessage == <<"P","l","e","a","s","e"," ","c","a","l","l">>
tGeneral == <<"g","e","n","e","r","a","l">>
tSales == <<"s","a","l","e","s">>
tJohn == <<"J","o","h","n">>
tJohnEmail == <<"j","o","h","n","@","x",".","n","g">>
tLag == <<"L","A","G">>
tAdminPass == <<"a","d","m","i","n","1","2","3">>
tSecret == <<"s","e","c","r","e","t","1">>
tNewPass == <<"n","e","w","p","a","s","s">>
tSystemAdmin == <<"S","Y","S","T","E","M","-","A","D","M","I","N">>

(***************************************************************************)
(* The store (one sequence per table, in creation order: the position is   *)
(* the createdAt order), the response to the last request handled, and the *)
(* favourites requests in flight; the review requests in flight; the       *)
(* clock (in hours), the number of random tokens drawn so far, the tokens  *)
(* that a request has succeeded with, and the outcome of the e-mail the    *)
(* last request tried to send.                                             *)
(***************************************************************************)
VARIABLES users, agents, properties, reviews, contacts, favorites, resp, favReq,
          revReq, now, issued, spent, mail, likeReq, db, env

authVars == <<now, issued, spent, mail>>

\* The like and dislike requests in flight, the DatabaseManager's connection
\* loop, and process.env.NODE_ENV.
opsVars == <<likeReq, db, env>>

vars == <<users, agents, properties, reviews, contacts, favorites, resp, favReq,
          revReq, now, issued, spent, mail, likeReq, db, env>>

Ids(table) == {table[i].id : i \in DOMAIN table}
NextId(table) == IF table = <<>> THEN 1
                 ELSE 1 + (CHOOSE m \in Ids(table) : \A n \in Ids(table) : n <= m)
Row(table, id) == table[CHOOSE i \in DOMAIN table : table[i].id = id]
Rows(table) == {table[i] : i \in DOMAIN table}

\* bcrypt.hash(password, 12): the stored hash is not the password.
Hash(password) == <<"$", "2", "a", "$">> \o password

\* prisma.user.create({ data: { email, password, firstName, lastName, role } }):
\* the columns not given take their defaults (emailVerified false, the token
\* and expiry columns NULL, written 0).
NewUser(id, email, firstName, lastName, role, password) ==
    [id |-> id, email |-> email, firstName |-> firstName, lastName |-> lastName,
     role |-> role, password |-> Hash(password), emailVerified |-> FALSE,
     emailVerificationToken |-> 0, emailVerificationExpires |-> 0,
     passwordResetToken |-> 0, passwordResetExpires |-> 0]

\* prisma.<model>.update({ where: { id }, data }) on an existing row.
UpdateRow(table, id, field, value) ==
    [i \in DOMAIN table |->
        IF table[i].id = id THEN (field :> value) @@ table[i] ELSE table[i]]

(***************************************************************************)
(* Request parameters: a query or body value is absent (undefined) or a    *)
(* string.                                                                 *)
(***************************************************************************)
Absent == [present |-> FALSE, val |-> <<>>]
P(s) == [present |-> TRUE, val |-> s]

\* JavaScript truthiness of a string-or-undefined value.
Truthy(p) == p.present /\ p.val # <<>>

NoQuery == [page |-> Absent, limit |-> Absent, search |-> Absent, q |-> Absent,
            priceMin |-> Absent, priceMax |-> Absent, bedrooms |-> Absent,
            bathrooms |-> Absent, propertyType |-> Absent, city |-> Absent,
            state |-> Absent, status |-> Absent, sortBy |-> Absent]

(***************************************************************************)
(* Predicates (Prisma `where` objects): a function from keys to            *)
(* constraints.  Object spread lets a later key replace an earlier one.    *)
(***************************************************************************)
EmptyObject == <<>>

Eq(x) == [op |-> "eq", arg |-> x, fields |-> {}]
Gte(x) == [op |-> "gte", arg |-> x, fields |-> {}]
Lte(x) == [op |-> "lte", arg |-> x, fields |-> {}]
Contains(x) == [op |-> "contains", arg |-> x, fields |-> {}]
Has(x) == [op |-> "has", arg |-> x, fields |-> {}]
AnyContains(fs, x) == [op |-> "anyContains", arg |-> x, fields |-> fs]

\* ...(cond && obj)
SpreadIf(cond, obj) == IF cond THEN obj ELSE EmptyObject

\* { ...parts[1], ...parts[2], ... }: the last occurrence of a key wins.
RECURSIVE ObjectSpread(_)
ObjectSpread(parts) ==
    IF parts = <<>> THEN EmptyObject
    ELSE parts[Len(parts)] @@ ObjectSpread(SubSeq(parts, 1, Len(parts) - 1))

NumericKeys == {"price", "bedrooms", "bathrooms"}

\* Does the row satisfy the constraint c on key?
Sat(row, key, c) ==
    CASE c.op = "eq" ->
           IF key \in NumericKeys THEN IsNum(c.arg) /\ row[key] = c.arg.v
           ELSE row[key] = c.arg
      [] c.op = "gte" -> IsNum(c.arg) /\ row[key] >= c.arg.v
      [] c.op = "lte" -> IsNum(c.arg) /\ row[key] <= c.arg.v
      [] c.op = "contains" -> ContainsInsensitive(row[key], c.arg)
      [] c.op = "anyContains" -> \E f \in c.fields : ContainsInsensitive(row[f], c.arg)
      [] c.op = "has" -> c.arg \in row[key]

Matches(row, where) == \A key \in DOMAIN where : Sat(row, key, where[key])

\* The enum a key is typed with, per model.
EnumOf(model, key) ==
    CASE model = "property" /\ key = "status" -> PropertyStatuses
      [] model = "property" /\ key = "propertyType" -> PropertyTypes
      [] model = "agent" /\ key = "verificationStatus" -> VerificationStatuses
      [] model = "review" /\ key = "status" -> ReviewStatuses
      [] model = "contact" /\ key = "status" -> ContactStatuses
      [] OTHER -> {}

IsEnumKey(model, key) ==
    \/ model = "property" /\ key \in {"status", "propertyType"}
    \/ model = "agent" /\ key = "verificationStatus"
    \/ model \in {"review", "contact"} /\ key = "status"

\* The query engine validates its arguments before it runs a query: a number
\* must be a number, an enum value a member of the column's enum.
WhereValid(model, where) ==
    \A key \in DOMAIN where :
        /\ key \in NumericKeys => IsNum(where[key].arg)
        /\ IsEnumKey(model, key) => where[key].arg \in EnumOf(model, key)

SkipTakeValid(skip, take) == IsNum(skip) /\ skip.v >= 0 /\ IsNum(take) /\ take.v >= 0

RECURSIVE SelectSeq2(_, _)
SelectSeq2(rows, where) ==
    IF rows = <<>> THEN <<>>
    ELSE (IF Matches(Head(rows), where) THEN <<Head(rows)>> ELSE <<>>)
         \o SelectSeq2(Tail(rows), where)

Reverse(s) == [i \in DOMAIN s |-> s[Len(s) + 1 - i]]

\* The rows at positions skip+1 .. skip+take of s.
Page(s, skip, take) ==
    SubSeq(s, skip + 1, IF skip + take <= Len(s) THEN skip + take ELSE Len(s))

\* Rows in ascending order of rating (insertion sort; rows of equal rating
\* keep their creation order).
RECURSIVE InsertByRating(_, _)
InsertByRating(r, sorted) ==
    IF sorted = <<>> THEN <<r>>
    ELSE IF r.rating < Head(sorted).rating THEN <<r>> \o sorted
    ELSE <<Head(sorted)>> \o InsertByRating(r, Tail(sorted))

RECURSIVE SortByRating(_)
SortByRating(rows) ==
    IF rows = <<>> THEN <<>>
    ELSE InsertByRating(rows[Len(rows)], SortByRating(SubSeq(rows, 1, Len(rows) - 1)))

NewestFirst == "createdAt desc"

\* orderBy applied to rows given in creation order.
OrderRows(rows, orderBy) ==
    CASE orderBy = "createdAt desc" -> Reverse(rows)
      [] orderBy = "createdAt asc" -> rows
      [] orderBy = "rating asc" -> SortByRating(rows)
      [] orderBy = "rating desc" -> Reverse(SortByRating(rows))

\* prisma.<model>.findMany({ where, skip, take, orderBy }) on the joined rows of
\* a table; the ids of the rows found, in order.
FindMany(rows, where, skip, take, orderBy) ==
    LET found == Page(OrderRows(SelectSeq2(rows, where), orderBy), skip, take)
    IN  [i \in DOMAIN found |-> found[i].id]

\* prisma.<model>.count({ where })
Count(rows, where) == Len(SelectSeq2(rows, where))

(***************************************************************************)
(* Responses.  A listing response carries what the handler computed: the   *)
(* predicate, offset and limit it passed to the fetch query, the ids       *)
(* fetched, and the total, page and pages it returned.                     *)
(***************************************************************************)
NoResponse == [endpoint |-> "none", status |-> 0, q |-> NoQuery, arg |-> 0,
               where |-> EmptyObject, skip |-> NaN, take |-> NaN,
               items |-> <<>>, total |-> 0, page |-> NaN, pages |-> NaN,
               body |-> {}, found |-> <<>>, texts |-> {}, view |-> <<>>]

\* The keys of { message, details: NODE_ENV === 'development' ? error.message
\* : undefined } once serialised: JSON leaves out a key whose value is undefined.
ErrorKeys == IF env = "development" THEN {"message", "details"} ELSE {"message"}

\* res.status(code).json(object): body holds the keys of the object.
ReplyWith(endpoint, code, arg, keys) ==
    [NoResponse EXCEPT !.endpoint = endpoint, !.status = code, !.arg = arg,
                       !.body = keys]

\* res.status(code).json({ message }), and the catch block's
\* res.status(500).json({ message, details }).
Reply(endpoint, code, arg) ==
    ReplyWith(endpoint, code, arg, IF code = 500 THEN ErrorKeys ELSE {"message"})

\* return res.status(400).json({ errors: errors.array() })
ReplyErrors(endpoint) == ReplyWith(endpoint, 400, 0, {"errors"})

\* const { page = 1 } = req.query  as used in arithmetic, and parseInt(page)
PageNumber(q) == IF q.page.present THEN ToNumber(q.page.val) ELSE Num(1)
PageEcho(q) == IF q.page.present THEN ParseInt(q.page.val) ELSE Num(1)

\* const { limit = <default> } = req.query  as used in arithmetic
LimitNumber(q, defaultLimit) ==
    IF q.limit.present THEN ToNumber(q.limit.val) ELSE Num(defaultLimit)

\* const skip = (page - 1) * limit;
SkipOf(q, defaultLimit) ==
    JsMul(JsSub(PageNumber(q), Num(1)), LimitNumber(q, defaultLimit))

\* const take = parseInt(limit);
TakeOf(q, defaultLimit) ==
    IF q.limit.present THEN ParseInt(q.limit.val) ELSE Num(defaultLimit)

\* pages: Math.ceil(total / limit)
PagesOf(total, q, defaultLimit) == CeilDiv(Num(total), LimitNumber(q, defaultLimit))

\* The body every paginated listing handler shares: Promise.all([findMany,
\* count]) and res.json({ items, total, page, pages }); a rejected query is
\* caught and answered 500.
Listing(endpoint, model, rows, fetchWhere, countWhere, orderBy, q, arg, defaultLimit) ==
    LET skip == SkipOf(q, defaultLimit)
        take == TakeOf(q, defaultLimit)
        sent == [NoResponse EXCEPT !.endpoint = endpoint, !.q = q, !.arg = arg,
                                   !.where = fetchWhere, !.skip = skip, !.take = take]
    IN  IF WhereValid(model, fetchWhere) /\ WhereValid(model, countWhere)
           /\ SkipTakeValid(skip, take)
        THEN LET total == Count(rows, countWhere)
             IN  [sent EXCEPT !.status = 200,
                              !.body = {"items", "total", "page", "pages"},
                              !.items = FindMany(rows, fetchWhere, skip.v, take.v, orderBy),
                              !.total = total,
                              !.page = PageEcho(q),
                              !.pages = PagesOf(total, q, defaultLimit)]
        ELSE [sent EXCEPT !.status = 500, !.body = ErrorKeys]

(***************************************************************************)
(* Joined rows: a property with its agent's user, an agent with its user.  *)
(***************************************************************************)
UserOfAgent(agentId) == Row(users, Row(agents, agentId).userId)

PropertyRows ==
    [i \in DOMAIN properties |->
        LET u == UserOfAgent(properties[i].agentId)
        IN  properties[i] @@ ("agent.user.firstName" :> u.firstName)
                          @@ ("agent.user.lastName" :> u.lastName)
                          @@ ("agent.user.email" :> u.email)]

AgentRows ==
    [i \in DOMAIN agents |->
        LET u == Row(users, agents[i].userId)
        IN  agents[i] @@ ("user.firstName" :> u.firstName)
                      @@ ("user.lastName" :> u.lastName)]

(***************************************************************************)
(* Default page sizes of the listing handlers.                             *)
(***************************************************************************)
PropertiesLimit == 10
ReviewsLimit == 20
TargetReviewsLimit == 10
AdminAgentsLimit == 50
AdminPropertiesLimit == 50
PendingReviewsLimit == 20
SubmissionsLimit == 20

(***************************************************************************)
(* Filter builders.                                                        *)
(***************************************************************************)
\* The dimensions GET /properties and GET /properties/search share.
PropertyDimensions(q) ==
    << SpreadIf(Truthy(q.priceMin), "price" :> Gte(ParseInt(q.priceMin.val))),
       SpreadIf(Truthy(q.priceMax), "price" :> Lte(ParseInt(q.priceMax.val))),
       SpreadIf(Truthy(q.bedrooms), "bedrooms" :> Eq(ParseInt(q.bedrooms.val))),
       SpreadIf(Truthy(q.bathrooms), "bathrooms" :> Gte(ParseFloat(q.bathrooms.val))),
       SpreadIf(Truthy(q.propertyType), "propertyType" :> Eq(q.propertyType.val)),
       SpreadIf(Truthy(q.city), "city" :> Contains(q.city.val)),
       SpreadIf(Truthy(q.state), "state" :> Contains(q.state.val)) >>

\* A variant of PropertiesWhere that leaves out status: 'ACTIVE'.
PropertiesWhereAnyStatus(q) ==
    ObjectSpread(
        << SpreadIf(Truthy(q.search),
                    "OR" :> AnyContains({"title", "description", "city"}, q.search.val)) >>
        \o PropertyDimensions(q))

\* GET /properties: const where = { status: 'ACTIVE', ...(search && ...), ... }
PropertiesWhere(q) ==
    ObjectSpread(
        << "status" :> Eq(ACTIVE),
           SpreadIf(Truthy(q.search),
                    "OR" :> AnyContains({"title", "description", "city"}, q.search.val)) >>
        \o PropertyDimensions(q))

\* GET /properties/search: the same with q, which also searches the address.
SearchWhere(q) ==
    ObjectSpread(
        << "status" :> Eq(ACTIVE),
           SpreadIf(Truthy(q.q),
                    "OR" :> AnyContains({"title", "description", "city", "address"},
                                        q.q.val)) >>
        \o PropertyDimensions(q))

\* const { status = 'all' } = req.query
StatusOrAll(q) == IF q.status.present THEN q.status ELSE P(sAll)

\* GET /admin/properties
AdminPropertiesWhere(q) ==
    ObjectSpread(
        << SpreadIf(Truthy(StatusOrAll(q)) /\ StatusOrAll(q).val # sAll,
                    "status" :> Eq(StatusOrAll(q).val)),
           SpreadIf(Truthy(q.search),
                    "OR" :> AnyContains({"title", "description", "address",
                                         "agent.user.firstName", "agent.user.lastName",
                                         "agent.user.email"}, q.search.val)) >>)

\* GET /admin/agents: where = {}; if (search && ...) where.OR = ...;
\* if (status && ...) { if (validStatuses.includes(status.toUpperCase())) ... }
AdminAgentsWhere(q) ==
    ObjectSpread(
        << SpreadIf(Truthy(q.search) /\ Trim(q.search.val) # sEmpty
                        /\ q.search.val # sUndefined,
                    "OR" :> AnyContains({"user.firstName", "user.lastName",
                                         "registrationNumber"}, Trim(q.search.val))),
           SpreadIf(Truthy(q.status) /\ q.status.val # sAll /\ q.status.val # sUndefined
                        /\ Trim(q.status.val) # sEmpty
                        /\ ToUpperCase(q.status.val) \in VerificationStatuses,
                    "verificationStatus" :> Eq(ToUpperCase(q.status.val))) >>)

\* A variant of SubmissionsWhere in which 'all' is a status like any other.
SubmissionsWhereAnyStatus(q) ==
    SpreadIf(Truthy(StatusOrAll(q)), "status" :> Eq(StatusOrAll(q).val))

\* GET /contact/submissions
SubmissionsWhere(q) ==
    SpreadIf(Truthy(StatusOrAll(q)) /\ StatusOrAll(q).val # sAll,
             "status" :> Eq(StatusOrAll(q).val))

(***************************************************************************)
(* The handlers' responses, as functions of the store and the request.     *)
(***************************************************************************)
GetPropertiesResponse(q) ==
    Listing("GET /properties", "property", PropertyRows,
            PropertiesWhere(q), PropertiesWhere(q), NewestFirst, q, 0, PropertiesLimit)

SearchPropertiesResponse(q) ==
    Listing("GET /properties/search", "property", PropertyRows,
            SearchWhere(q), SearchWhere(q), NewestFirst, q, 0, PropertiesLimit)

AdminPropertiesResponse(q) ==
    Listing("GET /admin/properties", "property", PropertyRows,
            AdminPropertiesWhere(q), AdminPropertiesWhere(q), NewestFirst, q, 0, AdminPropertiesLimit)

\* include: { properties: { select: { id: true, status: true } } }
IncludedProperties(agentId) ==
    LET own == SelectSeq(properties, LAMBDA p : p.agentId = agentId)
    IN  [i \in DOMAIN own |-> [id |-> own[i].id, status |-> own[i].status]]

\* agent.properties.filter(p => p.status === status).length
CountWithStatus(included, status) ==
    Len(SelectSeq(included, LAMBDA p : p.status = status))

\* transformedAgents of GET /admin/agents: the counts sent for an agent.
AdminAgentItem(agentId) ==
    [agentId |-> agentId,
     currentMonthListings |-> CountWithStatus(IncludedProperties(agentId), ACTIVE),
     totalSales |-> CountWithStatus(IncludedProperties(agentId), SOLD)]

AdminAgentsResponse(q) ==
    LET sent == Listing("GET /admin/agents", "agent", AgentRows,
                        AdminAgentsWhere(q), AdminAgentsWhere(q), NewestFirst, q, 0,
                        AdminAgentsLimit)
    IN  [sent EXCEPT !.view = [i \in DOMAIN sent.items |-> AdminAgentItem(sent.items[i])]]

SubmissionsResponse(q) ==
    Listing("GET /contact/submissions", "contact", contacts,
            SubmissionsWhere(q), SubmissionsWhere(q), NewestFirst, q, 0, SubmissionsLimit)

(***************************************************************************)
(* express-validator chains.                                               *)
(***************************************************************************)
\* body(f).trim().isLength({ min, max })
LengthBetween(s, min, max) == Len(Trim(s)) >= min /\ Len(Trim(s)) <= max

\* body('email').isEmail(): local part, "@", a domain with a dot in it.
IsEmail(s) ==
    \E i \in DOMAIN s :
        /\ s[i] = "@" /\ i > 1
        /\ \A j \in DOMAIN s : s[j] = "@" => j = i
        /\ \E j \in DOMAIN s : s[j] = "." /\ j > i + 1 /\ j < Len(s)

\* .normalizeEmail()
NormalizeEmail(s) == ToLowerCase(s)

\* The chains of POST /properties.
ValidPropertyBody(b) ==
    /\ Len(Trim(b.title)) >= 3
    /\ Len(Trim(b.description)) >= 10
    /\ b.price >= 0
    /\ Len(Trim(b.address)) >= 5
    /\ Len(Trim(b.city)) >= 2
    /\ Len(Trim(b.state)) >= 2
    /\ Len(Trim(b.zipCode)) >= 5
    /\ b.bedrooms >= 0
    /\ b.bathrooms >= 0
    /\ b.squareFootage >= 0
    /\ b.propertyType \in PropertyTypes

\* The chains of POST /admin/agents (for the fields the model carries).
ValidAgentBody(b) ==
    /\ Len(Trim(b.firstName)) >= 2
    /\ Len(Trim(b.lastName)) >= 2
    /\ IsEmail(b.email)
    /\ Len(Trim(b.registrationNumber)) >= 5
    /\ b.verificationStatus.present => b.verificationStatus.val \in VerificationStatuses

\* The chains of POST /contact/submit.
InquiryTypes == {tGeneral, tSales}
ValidContactBody(b) ==
    /\ LengthBetween(b.name, 2, 100)
    /\ IsEmail(b.email)
    /\ b.phone.present => LengthBetween(b.phone.val, 10, 20)
    /\ LengthBetween(b.subject, 5, 200)
    /\ LengthBetween(b.message, 10, 2000)
    /\ b.inquiryType \in InquiryTypes

\* The chains of POST /reviews.
ValidReviewBody(b) ==
    /\ b.rating >= 1 /\ b.rating <= 5
    /\ LengthBetween(b.comment, 10, 1000)

(***************************************************************************)
(* Middleware (../middleware/auth): the caller is an authenticated user;   *)
(* requireAgent lets the role AGENT through, requireAdmin the role ADMIN.  *)
(***************************************************************************)
Authenticated(u) == u \in Ids(users)
RequireAgent(u) == Authenticated(u) /\ Row(users, u).role = AGENT
RequireAdmin(u) == Authenticated(u) /\ Row(users, u).role = ADMIN

(***************************************************************************)
(* The client: it awaits the response to a request before it sends the     *)
(* next one.                                                               *)
(***************************************************************************)
ClientReady == resp.endpoint = "none"

Receive ==
    /\ ~ClientReady
    /\ resp' = NoResponse
    /\ UNCHANGED <<users, agents, properties, reviews, contacts, favorites, favReq, revReq, authVars, opsVars>>

(***************************************************************************)
(* Writes.                                                                 *)
(***************************************************************************)
\* POST /admin/agents
AdminCreateAgent(b) ==
    /\ ClientReady
    /\ Len(agents) < MaxAgents
    /\ UNCHANGED <<properties, reviews, contacts, favorites, favReq, revReq, authVars, opsVars>>
    /\ LET email == NormalizeEmail(b.email)
           reg == Trim(b.registrationNumber)
       IN  IF ~ValidAgentBody(b) THEN
               /\ resp' = ReplyErrors("POST /admin/agents")
               /\ UNCHANGED <<users, agents>>
           ELSE IF \E u \in Rows(users) : u.email = email THEN
               /\ resp' = Reply("POST /admin/agents", 400, 0)
               /\ UNCHANGED <<users, agents>>
           ELSE IF \E a \in Rows(agents) : a.registrationNumber = reg THEN
               /\ resp' = Reply("POST /admin/agents", 400, 0)
               /\ UNCHANGED <<users, agents>>
           ELSE
               /\ users' = Append(users, NewUser(NextId(users), email,
                                                  Trim(b.firstName),
                                                  Trim(b.lastName), AGENT, tSecret))
               /\ agents' = Append(agents,
                      [id |-> NextId(agents), userId |-> NextId(users),
                       registrationNumber |-> reg,
                       verificationStatus |->
                           IF b.verificationStatus.present
                           THEN b.verificationStatus.val ELSE PENDING])
               /\ resp' = ReplyWith("POST /admin/agents", 201, NextId(agents),
                                    {"message", "agent"})

\* POST /properties (authenticate, requireAgent)
CreateProperty(caller, b) ==
    /\ ClientReady
    /\ RequireAgent(caller)
    /\ Len(properties) < MaxProps
    /\ UNCHANGED <<users, agents, reviews, contacts, favorites, favReq, revReq, authVars, opsVars>>
    /\ IF ~ValidPropertyBody(b) THEN
           /\ resp' = ReplyErrors("POST /properties")
           /\ UNCHANGED properties
       ELSE IF ~\E a \in Rows(agents) : a.userId = caller THEN
           /\ resp' = Reply("POST /properties", 403, 0)
           /\ UNCHANGED properties
       ELSE LET agent == CHOOSE a \in Rows(agents) : a.userId = caller
            IN  /\ properties' = Append(properties,
                       [id |-> NextId(properties), title |-> Trim(b.title),
                        description |-> Trim(b.description), price |-> b.price,
                        address |-> Trim(b.address), city |-> Trim(b.city),
                        state |-> Trim(b.state), zipCode |-> Trim(b.zipCode),
                        bedrooms |-> b.bedrooms, bathrooms |-> b.bathrooms,
                        squareFootage |-> b.squareFootage,
                        propertyType |-> b.propertyType,
                        status |-> PENDING, agentId |-> agent.id])
                /\ resp' = ReplyWith("POST /properties", 201, NextId(properties),
                                     {"property"})

\* prisma.property.update({ where: { id }, data: { status } }): a missing row
\* makes update throw, which the handler answers 500.
SetPropertyStatus(endpoint, id, status) ==
    /\ ClientReady
    /\ UNCHANGED <<users, agents, reviews, contacts, favorites, favReq, revReq, authVars, opsVars>>
    /\ IF id \in Ids(properties) THEN
           /\ properties' = UpdateRow(properties, id, "status", status)
           /\ resp' = ReplyWith(endpoint, 200, id, {"property"})
       ELSE
           /\ resp' = Reply(endpoint, 500, id)
           /\ UNCHANGED properties

\* POST /admin/properties/:id/approve
AdminApproveProperty(id) == SetPropertyStatus("POST /admin/properties/:id/approve", id, ACTIVE)

\* POST /admin/properties/:id/reject
AdminRejectProperty(id) == SetPropertyStatus("POST /admin/properties/:id/reject", id, REJECTED)

\* POST /contact/submit
\* A variant of NewContact that files the submission as CONTACTED.
NewContactContacted(id, b) ==
    [id |-> id, name |-> Trim(b.name), email |-> NormalizeEmail(b.email),
     subject |-> Trim(b.subject), message |-> Trim(b.message),
     inquiryType |-> b.inquiryType, status |-> CONTACTED]

\* prisma.contact.create({ data: { name, email, ..., status: 'NEW' } }) with the
\* sanitised fields of the body.
NewContact(id, b) ==
    [id |-> id, name |-> Trim(b.name), email |-> NormalizeEmail(b.email),
     subject |-> Trim(b.subject), message |-> Trim(b.message),
     inquiryType |-> b.inquiryType, status |-> StatusNEW]

ContactSubmit(b) ==
    /\ ClientReady
    /\ Len(contacts) < MaxContacts
    /\ UNCHANGED <<users, agents, properties, reviews, favorites, favReq, revReq, authVars, opsVars>>
    /\ IF ~ValidContactBody(b) THEN
           /\ resp' = ReplyErrors("POST /contact/submit")
           /\ UNCHANGED contacts
       ELSE
           /\ contacts' = Append(contacts, NewContact(NextId(contacts), b))
           /\ resp' = ReplyWith("POST /contact/submit", 201, NextId(contacts),
                                {"message", "submission"})

\* The duplicate check of POST /reviews:
\*   findFirst({ where: { userId, OR: [ { propertyId: propertyId || undefined },
\*                                       { agentId: agentId || undefined } ] } })
\* A variant of ExistingReview in which an alternative whose only key is
\* undefined matches every row.
ExistingReviewOfAnyTarget(userId, propertyId, agentId) ==
    \E r \in Rows(reviews) :
        /\ r.userId = userId
        /\ \/ (propertyId # 0 => r.propertyId = propertyId)
           \/ (agentId # 0 => r.agentId = agentId)

\* A key whose value is undefined is left out of the query, and an alternative
\* of OR that is left with no condition is no alternative (an OR of no
\* alternatives selects nothing).
ExistingReview(userId, propertyId, agentId) ==
    \E r \in Rows(reviews) :
        /\ r.userId = userId
        /\ \/ (propertyId # 0 /\ r.propertyId = propertyId)
           \/ (agentId # 0 /\ r.agentId = agentId)

\* A variant of NoTarget that lets every body through.
TargetNotRequired(b) == FALSE

\* if (!propertyId && !agentId)
NoTarget(b) == b.propertyId = 0 /\ b.agentId = 0

\* POST /reviews.  token is the user the bearer token decodes to, 0 when the
\* header is missing; propertyId and agentId are 0 when the body lacks them.
CreateReview(token, b) ==
    /\ ClientReady
    /\ Len(reviews) < MaxReviews
    /\ UNCHANGED <<users, agents, properties, contacts, favorites, favReq, revReq, authVars, opsVars>>
    /\ IF ~ValidReviewBody(b) THEN
           /\ resp' = ReplyErrors("POST /reviews")
           /\ UNCHANGED reviews
       ELSE IF token = 0 THEN
           /\ resp' = Reply("POST /reviews", 401, 0)
           /\ UNCHANGED reviews
       ELSE IF NoTarget(b) THEN
           /\ resp' = Reply("POST /reviews", 400, 0)
           /\ UNCHANGED reviews
       ELSE IF b.propertyId # 0 /\ b.propertyId \notin Ids(properties) THEN
           /\ resp' = Reply("POST /reviews", 400, 0)
           /\ UNCHANGED reviews
       ELSE IF b.agentId # 0 /\ b.agentId \notin Ids(agents) THEN
           /\ resp' = Reply("POST /reviews", 400, 0)
           /\ UNCHANGED reviews
       ELSE IF ExistingReview(token, b.propertyId, b.agentId) THEN
           /\ resp' = Reply("POST /reviews", 400, 0)
           /\ UNCHANGED reviews
       ELSE
           /\ reviews' = Append(reviews,
                  [id |-> NextId(reviews), userId |-> token,
                   propertyId |-> b.propertyId, agentId |-> b.agentId,
                   rating |-> b.rating, comment |-> Trim(b.comment),
                   status |-> PENDING, likes |-> 0, dislikes |-> 0])
           /\ resp' = ReplyWith("POST /reviews", 201, NextId(reviews), {"review"})

\* prisma.review.update({ where: { id }, data: { status } }), 500 when it throws.
SetReviewStatus(endpoint, id, status) ==
    /\ ClientReady
    /\ UNCHANGED <<users, agents, properties, contacts, favorites, favReq, revReq, authVars, opsVars>>
    /\ IF id \in Ids(reviews) THEN
           /\ reviews' = UpdateRow(reviews, id, "status", status)
           /\ resp' = ReplyWith(endpoint, 200, id, {"review"})
       ELSE
           /\ resp' = Reply(endpoint, 500, id)
           /\ UNCHANGED reviews

\* POST /admin/reviews/:id/approve
AdminApproveReview(id) == SetReviewStatus("POST /admin/reviews/:id/approve", id, APPROVED)

\* POST /admin/reviews/:id/reject
AdminRejectReview(id) == SetReviewStatus("POST /admin/reviews/:id/reject", id, REJECTED)

(***************************************************************************)
(* The review listings: the fetch and the count each write their own       *)
(* predicate.                                                              *)
(***************************************************************************)
ReviewsFetchWhere == "status" :> Eq(APPROVED)
ReviewsCountWhere == "status" :> Eq(APPROVED)

PropertyReviewsFetchWhere(propertyId) ==
    ("status" :> Eq(APPROVED)) @@ ("propertyId" :> Eq(propertyId))
\* A count over the reviews of the property whatever their status.
PropertyReviewsCountAnyStatus(propertyId) == "propertyId" :> Eq(propertyId)

PropertyReviewsCountWhere(propertyId) ==
    ("propertyId" :> Eq(propertyId)) @@ ("status" :> Eq(APPROVED))

AgentReviewsFetchWhere(agentId) ==
    ("status" :> Eq(APPROVED)) @@ ("agentId" :> Eq(agentId))
AgentReviewsCountWhere(agentId) ==
    ("agentId" :> Eq(agentId)) @@ ("status" :> Eq(APPROVED))

UserReviewsFetchWhere(userId) ==
    ("status" :> Eq(APPROVED)) @@ ("userId" :> Eq(userId))
UserReviewsCountWhere(userId) ==
    ("userId" :> Eq(userId)) @@ ("status" :> Eq(APPROVED))

PendingReviewsFetchWhere == "status" :> Eq(PENDING)
PendingReviewsCountWhere == "status" :> Eq(PENDING)

sNewest == <<"n","e","w","e","s","t">>
sOldest == <<"o","l","d","e","s","t">>
sHighest == <<"h","i","g","h","e","s","t">>
sLowest == <<"l","o","w","e","s","t">>

\* const { sortBy = 'newest' } = req.query; switch (sortBy) { ... }
ReviewsOrderBy(q) ==
    LET sortBy == IF q.sortBy.present THEN q.sortBy.val ELSE sNewest
    IN  CASE sortBy = sNewest -> "createdAt desc"
          [] sortBy = sOldest -> "createdAt asc"
          [] sortBy = sHighest -> "rating desc"
          [] sortBy = sLowest -> "rating asc"
          [] OTHER -> "createdAt desc"

\* GET /reviews
GetReviewsResponse(q) ==
    Listing("GET /reviews", "review", reviews,
            ReviewsFetchWhere, ReviewsCountWhere, ReviewsOrderBy(q), q, 0, ReviewsLimit)

\* GET /reviews/property/:propertyId
PropertyReviewsResponse(propertyId, q) ==
    Listing("GET /reviews/property/:propertyId", "review", reviews,
            PropertyReviewsFetchWhere(propertyId), PropertyReviewsCountWhere(propertyId),
            NewestFirst, q, propertyId, TargetReviewsLimit)

\* GET /reviews/agent/:agentId
AgentReviewsResponse(agentId, q) ==
    Listing("GET /reviews/agent/:agentId", "review", reviews,
            AgentReviewsFetchWhere(agentId), AgentReviewsCountWhere(agentId),
            NewestFirst, q, agentId, TargetReviewsLimit)

\* GET /reviews/user/:userId
UserReviewsResponse(userId, q) ==
    Listing("GET /reviews/user/:userId", "review", reviews,
            UserReviewsFetchWhere(userId), UserReviewsCountWhere(userId),
            NewestFirst, q, userId, TargetReviewsLimit)

\* GET /admin/reviews/pending
PendingReviewsResponse(q) ==
    Listing("GET /admin/reviews/pending", "review", reviews,
            PendingReviewsFetchWhere, PendingReviewsCountWhere, NewestFirst, q, 0, PendingReviewsLimit)

(***************************************************************************)
(* The listing requests: the store is read, the response is sent.          *)
(***************************************************************************)
Respond(r) ==
    /\ ClientReady
    /\ resp' = r
    /\ UNCHANGED <<users, agents, properties, reviews, contacts, favorites, favReq, revReq, authVars, opsVars>>

GetProperties(q) == Respond(GetPropertiesResponse(q))
SearchProperties(q) == Respond(SearchPropertiesResponse(q))
AdminGetProperties(q) == Respond(AdminPropertiesResponse(q))
AdminGetAgents(q) == Respond(AdminAgentsResponse(q))
GetSubmissions(q) == Respond(SubmissionsResponse(q))
GetReviews(q) == Respond(GetReviewsResponse(q))
GetPropertyReviews(id, q) == Respond(PropertyReviewsResponse(id, q))
GetAgentReviews(id, q) == Respond(AgentReviewsResponse(id, q))
GetUserReviews(id, q) == Respond(UserReviewsResponse(id, q))
AdminGetPendingReviews(q) == Respond(PendingReviewsResponse(q))

(***************************************************************************)
(* Request bodies and queries the requests are drawn from.                 *)
(***************************************************************************)
AdaBody == [firstName |-> tAda, lastName |-> tObi, email |-> tAdaEmail,
            registrationNumber |-> tReg1, verificationStatus |-> Absent]
BolaBody == [firstName |-> tBola, lastName |-> tObi, email |-> tBolaEmail,
             registrationNumber |-> tReg2, verificationStatus |-> P(APPROVED)]
ShortRegBody == [AdaBody EXCEPT !.registrationNumber = tRegShort]

Body100 == [title |-> tVilla, description |-> tDescription, price |-> 100,
            address |-> tAddress, city |-> tLagos, state |-> tLA, zipCode |-> tZip,
            bedrooms |-> 2, bathrooms |-> 1, squareFootage |-> 90,
            propertyType |-> HOUSE]
Body200 == [Body100 EXCEPT !.title = tFlat, !.price = 200, !.bedrooms = 3,
                           !.propertyType = CONDO]
Body300 == [Body100 EXCEPT !.price = 300, !.city = tAbuja, !.state = tFC,
                           !.bedrooms = 3, !.bathrooms = 2]
NegativePriceBody == [Body100 EXCEPT !.price = -1]

JohnBody == [name |-> tJohn, email |-> tJohnEmail, phone |-> Absent,
             subject |-> tSubject, message |-> tMessage, inquiryType |-> tGeneral]
ShortSubjectBody == [JohnBody EXCEPT !.subject = tAda]

ReviewBody(propertyId, agentId, rating) ==
    [rating |-> rating, comment |-> tComment, propertyId |-> propertyId,
     agentId |-> agentId]

With(q, name, value) == [q EXCEPT ![name] = value]

(***************************************************************************)
(* The initial store: the administrator created by create-admin.js.        *)
(***************************************************************************)
AdminUser == NewUser(1, tAdminEmail, tAdmin, tUserName, ADMIN, tAdminPass)

IdleRequest == [kind |-> "none", user |-> 0, propertyId |-> 0, pc |-> "idle",
                status |-> 0]

IdleReview == [user |-> 0, propertyId |-> 0, agentId |-> 0, rating |-> 0,
               valid |-> FALSE, pc |-> "idle", status |-> 0, body |-> {}]

\* A like or dislike request that has not been sent.
IdleLike == [pc |-> "idle", kind |-> "none", id |-> 0, read |-> 0, status |-> 0]

\* The DatabaseManager before connectWithRetry is called: the loop's position,
\* its retries counter, the attempts made and the milliseconds waited in the
\* current call, the errors of its failed attempts, what it returned or threw,
\* whether the client is connected, and the calls made so far.
NotConnecting == [pc |-> "idle", retries |-> 0, attempts |-> 0, waited |-> 0,
                  errors |-> <<>>, returned |-> "none", thrown |-> "none",
                  connected |-> FALSE, calls |-> 0]

Init ==
    /\ users = <<AdminUser>>
    /\ agents = <<>>
    /\ properties = <<>>
    /\ reviews = <<>>
    /\ contacts = <<>>
    /\ favorites = <<>>
    /\ resp = NoResponse
    /\ favReq = [r \in 1..MaxFavRequests |-> IdleRequest]
    /\ revReq = [r \in 1..MaxReviewRequests |-> IdleReview]
    /\ now = 0
    /\ issued = 0
    /\ spent = {}
    /\ mail = "none"
    /\ likeReq = [r \in 1..MaxLikeRequests |-> IdleLike]
    /\ db = NotConnecting
    /\ env = "production"

(***************************************************************************)
(* Spec: agents list properties, the administrator moderates them, and     *)
(* clients browse and search them.                                         *)
(***************************************************************************)
PriceQueries ==
    {[NoQuery EXCEPT !.priceMin = lo, !.priceMax = hi, !.bedrooms = b] :
        lo \in {Absent, P(s150), P(sEmpty)},
        hi \in {Absent, P(s250)},
        b \in {Absent, P(sThree)}}

TextQueries ==
    {[NoQuery EXCEPT !.search = t, !.q = t, !.city = c, !.propertyType = ty] :
        t \in {Absent, P(tLag)},
        c \in {Absent, P(tAbuja)},
        ty \in {Absent, P(HOUSE), P(sBogus)}}

Dimensions == {"search", "q", "priceMin", "priceMax", "bedrooms", "bathrooms",
               "propertyType", "city", "state", "status"}
Sentinels == {sEmpty, sAll, sUndefined}
SentinelQueries == {With(NoQuery, d, P(v)) : d \in Dimensions, v \in Sentinels}

PropertyQueries == PriceQueries \cup TextQueries \cup SentinelQueries
SearchQueries == PriceQueries \cup TextQueries

AdminPropertyQueries ==
    {[NoQuery EXCEPT !.status = st, !.search = t] :
        st \in {Absent, P(sEmpty), P(sAll), P(PENDING), P(ACTIVE), P(sBogus)},
        t \in {Absent, P(tAda)}}

PropertyIds == 1..MaxProps

Next ==
    \/ \E b \in {AdaBody, ShortRegBody} : AdminCreateAgent(b)
    \/ \E u \in Ids(users), b \in {Body100, Body200, Body300, NegativePriceBody} :
           CreateProperty(u, b)
    \/ \E id \in PropertyIds : AdminApproveProperty(id)
    \/ \E id \in PropertyIds : AdminRejectProperty(id)
    \/ \E q \in PropertyQueries : GetProperties(q)
    \/ \E q \in SearchQueries : SearchProperties(q)
    \/ \E q \in AdminPropertyQueries : AdminGetProperties(q)
    \/ Receive

Spec == Init /\ [][Next]_vars

(***************************************************************************)
(* Properties of the property listings (checked under Spec).               *)
(***************************************************************************)
IsListing(endpoints) == resp.endpoint \in endpoints /\ resp.status = 200
Returned == {resp.items[i] : i \in DOMAIN resp.items}

\* What a request asks of a property, dimension by dimension.
AsksPriceMin(q, p) == Truthy(q.priceMin) => p.price >= ParseInt(q.priceMin.val).v
AsksPriceMax(q, p) == Truthy(q.priceMax) => p.price <= ParseInt(q.priceMax.val).v
AsksBedrooms(q, p) == Truthy(q.bedrooms) => p.bedrooms = ParseInt(q.bedrooms.val).v
AsksBathrooms(q, p) == Truthy(q.bathrooms) => p.bathrooms >= ParseFloat(q.bathrooms.val).v
AsksType(q, p) == Truthy(q.propertyType) => p.propertyType = q.propertyType.val
AsksCity(q, p) == Truthy(q.city) => ContainsInsensitive(p.city, q.city.val)
AsksState(q, p) == Truthy(q.state) => ContainsInsensitive(p.state, q.state.val)
AsksText(text, fields, p) ==
    Truthy(text) => \E f \in fields : ContainsInsensitive(p[f], text.val)
AsksAll(endpoint, q, p) ==
    /\ AsksPriceMin(q, p) /\ AsksPriceMax(q, p) /\ AsksBedrooms(q, p)
    /\ AsksBathrooms(q, p) /\ AsksType(q, p) /\ AsksCity(q, p) /\ AsksState(q, p)
    /\ IF endpoint = "GET /properties"
       THEN AsksText(q.search, {"title", "description", "city"}, p)
       ELSE AsksText(q.q, {"title", "description", "city", "address"}, p)

\* C3: on GET /properties and GET /properties/search the filters compose by AND:
\* every returned property satisfies every supplied filter, and every ACTIVE
\* property that satisfies them all is counted in total; in particular with
\* priceMin and priceMax both supplied the prices returned lie between them.
C3_FiltersComposeByAnd ==
    IsListing({"GET /properties", "GET /properties/search"}) =>
        /\ \A id \in Returned : AsksAll(resp.endpoint, resp.q, Row(properties, id))
        /\ resp.total = Cardinality({p \in Rows(properties) :
                                        p.status = ACTIVE /\ AsksAll(resp.endpoint, resp.q, p)})

OnlyPriceMin(q) == q.priceMin.present /\ q = With(NoQuery, "priceMin", q.priceMin)
                   /\ IsNum(ParseInt(q.priceMin.val))
PricedAtLeast(m, rows) == {p.id : p \in {r \in rows : r.price >= m}}

\* C4 as stated: with properties created through POST /properties and no other
\* write, GET /properties?priceMin=m returns exactly the created properties whose
\* price is at least m, and total is their number.
C4_CreatedAreListed ==
    (/\ IsListing({"GET /properties"})
     /\ OnlyPriceMin(resp.q)
     /\ \A p \in Rows(properties) : p.status = PENDING) =>
        /\ Returned = PricedAtLeast(ParseInt(resp.q.priceMin.val).v, Rows(properties))
        /\ resp.total = Cardinality(Returned)

\* C4 as amended: GET /properties?priceMin=m returns exactly the properties that an
\* administrator has approved (status ACTIVE) and whose price is at least m, newest
\* first, and total is their number; a property just created (PENDING) is not
\* returned.
C4_ApprovedAreListed ==
    (IsListing({"GET /properties"}) /\ OnlyPriceMin(resp.q)) =>
        /\ Returned = PricedAtLeast(ParseInt(resp.q.priceMin.val).v,
                                    {p \in Rows(properties) : p.status = ACTIVE})
        /\ resp.total = Cardinality(Returned)
        /\ Len(resp.items) = resp.total
        /\ \A i, j \in DOMAIN resp.items : i < j => resp.items[i] > resp.items[j]

\* Three properties priced 100, 200 and 300 in one city, all approved, and the
\* response to priceMin=150 holding the two priced 200 and 300.
C4_Witness ==
    /\ IsListing({"GET /properties"})
    /\ resp.q = With(NoQuery, "priceMin", P(s150))
    /\ Len(properties) = 3
    /\ {p.price : p \in Rows(properties)} = {100, 200, 300}
    /\ \A p \in Rows(properties) : p.status = ACTIVE
    /\ resp.total = 2
    /\ {Row(properties, id).price : id \in Returned} = {200, 300}

\* C6: on GET /properties a dimension given as "", "all" or "undefined" is no
\* constraint: the predicate, the items and the total are those of the request
\* without the parameter.
C6_SentinelsAreNoFilter ==
    (resp.endpoint = "GET /properties" /\ resp.q \in SentinelQueries) =>
        /\ resp.status = 200
        /\ DOMAIN resp.where = DOMAIN PropertiesWhere(NoQuery)
        /\ resp.items = GetPropertiesResponse(NoQuery).items
        /\ resp.total = GetPropertiesResponse(NoQuery).total

\* C7: an enum-valued parameter outside its allowed set is ignored: the predicate
\* has no constraint built from it and the response is that of the request
\* without the parameter (status on GET /admin/properties, propertyType on
\* GET /properties).
C7_UnknownEnumIgnored ==
    /\ (/\ resp.endpoint = "GET /admin/properties"
        /\ Truthy(resp.q.status)
        /\ resp.q.status.val \notin PropertyStatuses \cup {sAll}) =>
           /\ "status" \notin DOMAIN resp.where
           /\ resp.status = 200
           /\ resp.items = AdminPropertiesResponse(With(resp.q, "status", Absent)).items
           /\ resp.total = AdminPropertiesResponse(With(resp.q, "status", Absent)).total
    /\ (/\ resp.endpoint = "GET /properties"
        /\ Truthy(resp.q.propertyType)
        /\ resp.q.propertyType.val \notin PropertyTypes) =>
           /\ "propertyType" \notin DOMAIN resp.where
           /\ resp.status = 200
           /\ resp.items = GetPropertiesResponse(With(resp.q, "propertyType", Absent)).items
           /\ resp.total = GetPropertiesResponse(With(resp.q, "propertyType", Absent)).total

(***************************************************************************)
(* SpecPaging: every paginated listing, asked for pages inside and outside *)
(* the result, over a store that agents, clients and the administrator     *)
(* fill.                                                                   *)
(***************************************************************************)
PageQueries ==
    {[NoQuery EXCEPT !.page = p, !.limit = l] :
        p \in {Absent, P(sZero), P(sOne), P(sTwo), P(sThree), P(sAbc)},
        l \in {Absent, P(sTwo)}}

StatusQueries ==
    {With(NoQuery, "status", P(st)) : st \in {sEmpty, sAll, PENDING, sPendingLower, StatusNEW}}

NextPaging ==
    \/ \E b \in {AdaBody, BolaBody} : AdminCreateAgent(b)
    \/ CreateProperty(2, Body200)
    \/ \E id \in PropertyIds : AdminApproveProperty(id)
    \/ \E b \in {JohnBody, ShortSubjectBody} : ContactSubmit(b)
    \/ \E token \in {0, 1, 2} : CreateReview(token, ReviewBody(1, 0, 5))
    \/ \E id \in 1..MaxReviews : AdminApproveReview(id)
    \/ \E q \in PageQueries : GetProperties(q)
    \/ \E q \in PageQueries : SearchProperties(q)
    \/ \E q \in PageQueries \cup StatusQueries : AdminGetProperties(q)
    \/ \E q \in PageQueries \cup StatusQueries : AdminGetAgents(q)
    \/ \E q \in PageQueries \cup StatusQueries : GetSubmissions(q)
    \/ \E q \in PageQueries : GetReviews(q)
    \/ \E q \in PageQueries : GetPropertyReviews(1, q)
    \/ \E q \in PageQueries : GetAgentReviews(1, q)
    \/ \E q \in PageQueries : GetUserReviews(2, q)
    \/ \E q \in PageQueries : AdminGetPendingReviews(q)
    \/ Receive

SpecPaging == Init /\ [][NextPaging]_vars

(***************************************************************************)
(* Properties of pagination and of the status parameter (checked under     *)
(* SpecPaging).                                                            *)
(***************************************************************************)
PropertyListings == {"GET /properties", "GET /properties/search", "GET /admin/properties"}
ReviewListings == {"GET /reviews", "GET /reviews/property/:propertyId",
                   "GET /reviews/agent/:agentId", "GET /reviews/user/:userId",
                   "GET /admin/reviews/pending"}
Listings == PropertyListings \cup ReviewListings
                \cup {"GET /admin/agents", "GET /contact/submissions"}

\* The rows a listing endpoint lists from.
ListedRows(endpoint) ==
    IF endpoint \in PropertyListings THEN PropertyRows
    ELSE IF endpoint \in ReviewListings THEN reviews
    ELSE IF endpoint = "GET /admin/agents" THEN AgentRows
    ELSE contacts

\* The response of an endpoint to a request, in the current store.
ResponseTo(endpoint, arg, q) ==
    CASE endpoint = "GET /properties" -> GetPropertiesResponse(q)
      [] endpoint = "GET /properties/search" -> SearchPropertiesResponse(q)
      [] endpoint = "GET /admin/properties" -> AdminPropertiesResponse(q)
      [] endpoint = "GET /admin/agents" -> AdminAgentsResponse(q)
      [] endpoint = "GET /contact/submissions" -> SubmissionsResponse(q)
      [] endpoint = "GET /reviews" -> GetReviewsResponse(q)
      [] endpoint = "GET /reviews/property/:propertyId" -> PropertyReviewsResponse(arg, q)
      [] endpoint = "GET /reviews/agent/:agentId" -> AgentReviewsResponse(arg, q)
      [] endpoint = "GET /reviews/user/:userId" -> UserReviewsResponse(arg, q)
      [] endpoint = "GET /admin/reviews/pending" -> PendingReviewsResponse(q)

FirstPage(r) == ResponseTo(r.endpoint, r.arg, With(With(r.q, "page", Absent), "limit", Absent))

\* C1: in every listing response total is the number of rows that satisfy the
\* predicate the items were fetched with, whatever page and limit were asked:
\* it is the total of the same request without page and limit.
C1_TotalCountsThePredicate ==
    IsListing(Listings) =>
        /\ resp.total = Cardinality({r \in Rows(ListedRows(resp.endpoint)) :
                                        Matches(r, resp.where)})
        /\ resp.total = FirstPage(resp).total
        /\ \A id \in Returned : Matches(Row(ListedRows(resp.endpoint), id), resp.where)

\* The second page of the reviews of a property that has one approved and one
\* pending review: no item, total 1.
C1_Witness ==
    /\ IsListing({"GET /reviews/property/:propertyId"})
    /\ resp.q.page = P(sTwo)
    /\ resp.q.limit = P(sTwo)
    /\ resp.total = 1
    /\ resp.items = <<>>
    /\ \E r1, r2 \in Rows(reviews) :
           /\ r1.propertyId = resp.arg /\ r1.status = APPROVED
           /\ r2.propertyId = resp.arg /\ r2.status = PENDING

\* C2: in every listing response with a limit of at least 1, pages is the least
\* integer with pages * limit >= total, and a page beyond pages holds no item
\* while total and pages are those of the page before it.
C2_PagesIsCeiling ==
    (IsListing(Listings) /\ resp.take.v >= 1) =>
        /\ IsNum(resp.pages)
        /\ resp.pages.v * resp.take.v >= resp.total
        /\ (resp.pages.v - 1) * resp.take.v < resp.total
        /\ (IsNum(resp.page) /\ resp.page.v > resp.pages.v) =>
               /\ resp.items = <<>>
               /\ LET before == ResponseTo(resp.endpoint, resp.arg,
                                           With(resp.q, "page", P(<<"1">>)))
                  IN  /\ before.status = 200
                      /\ before.total = resp.total
                      /\ before.pages = resp.pages

\* Page 3 of three properties listed two a page: pages is 2, the list is empty.
C2_Witness ==
    /\ IsListing({"GET /admin/properties"})
    /\ resp.q.page = P(sThree)
    /\ resp.q.limit = P(sTwo)
    /\ resp.total = 3
    /\ resp.pages = Num(2)
    /\ resp.items = <<>>

StatusListings == {"GET /admin/properties", "GET /admin/agents", "GET /contact/submissions"}

\* C5: on GET /admin/properties, GET /admin/agents and GET /contact/submissions
\* the requests with status=all, with status= (empty) and without status get the
\* same items and the same total.
C5_StatusAllIsNoFilter ==
    (/\ resp.endpoint \in StatusListings
     /\ resp.q.status \in {P(sAll), P(sEmpty), Absent}) =>
        \A st \in {P(sAll), P(sEmpty), Absent} :
            LET other == ResponseTo(resp.endpoint, resp.arg, With(resp.q, "status", st))
            IN  /\ other.status = resp.status
                /\ other.items = resp.items
                /\ other.total = resp.total
                /\ "status" \notin DOMAIN resp.where
                /\ "verificationStatus" \notin DOMAIN resp.where

\* The response to GET /contact/submissions?status=all over two submissions.
C5_Witness ==
    /\ IsListing({"GET /contact/submissions"})
    /\ resp.q.status = P(sAll)
    /\ resp.total = 2
    /\ Len(resp.items) = 2

\* C8: a page below 1 or not a number is served as page 1, with offset 0; any
\* other page is served from offset (page - 1) * limit.
C8_BadPageIsPageOne ==
    (resp.endpoint \in Listings /\ resp.q.page.present /\ IsNum(resp.take)) =>
        LET page == ToNumber(resp.q.page.val)
            first == ResponseTo(resp.endpoint, resp.arg, With(resp.q, "page", Absent))
        IN  IF ~IsNum(page) \/ page.v < 1
            THEN /\ resp.skip = Num(0)
                 /\ resp.status = first.status
                 /\ resp.items = first.items
            ELSE resp.skip = Num((page.v - 1) * resp.take.v)

(***************************************************************************)
(* Favorites.  Each request is a process: the handler's queries reach the  *)
(* database one at a time, and the queries of other requests may run       *)
(* between them.                                                           *)
(***************************************************************************)
FavRequests == 1..MaxFavRequests

Favorite(userId, propertyId) == [userId |-> userId, propertyId |-> propertyId]

\* prisma.favorite.findUnique({ where: { userId_propertyId: { userId, propertyId } } })
ExistingFavoriteOfOthers(userId, propertyId) ==
    \E i \in DOMAIN favorites :
        favorites[i].propertyId = propertyId /\ favorites[i].userId # userId

ExistingFavorite(userId, propertyId) ==
    \E i \in DOMAIN favorites : favorites[i] = Favorite(userId, propertyId)

\* The unique key userId_propertyId of the Favorite table: an insert of a pair
\* that is already stored is refused.
NoUniqueKey(userId, propertyId) == FALSE

UniqueViolation(userId, propertyId) ==
    \E i \in DOMAIN favorites :
        favorites[i].userId = userId /\ favorites[i].propertyId = propertyId

RECURSIVE RemoveFirst(_, _)
RemoveFirst(rows, row) ==
    IF rows = <<>> THEN <<>>
    ELSE IF Head(rows) = row THEN Tail(rows)
    ELSE <<Head(rows)>> \o RemoveFirst(Tail(rows), row)

Answer(r, code) == favReq' = [favReq EXCEPT ![r].pc = "done", ![r].status = code]
Goto(r, pc) == favReq' = [favReq EXCEPT ![r].pc = pc]

\* POST /favorites up to its first query: 400 without propertyId, 404 when
\* property.findUnique finds nothing.  propertyId 0 is a body without propertyId.
PostFavorite(r, userId, propertyId) ==
    /\ favReq[r].pc = "idle"
    /\ Authenticated(userId)
    /\ UNCHANGED <<users, agents, properties, reviews, contacts, favorites, resp, revReq, authVars, opsVars>>
    /\ LET req == [IdleRequest EXCEPT !.kind = "POST", !.user = userId,
                                      !.propertyId = propertyId]
       IN  IF propertyId = 0 THEN
               favReq' = [favReq EXCEPT ![r] = [req EXCEPT !.pc = "done", !.status = 400]]
           ELSE IF propertyId \notin Ids(properties) THEN
               favReq' = [favReq EXCEPT ![r] = [req EXCEPT !.pc = "done", !.status = 404]]
           ELSE
               favReq' = [favReq EXCEPT ![r] = [req EXCEPT !.pc = "findFavorite"]]

\* const existingFavorite = await prisma.favorite.findUnique(...);
\* if (existingFavorite) return res.status(409)
FindFavorite(r) ==
    /\ favReq[r].kind = "POST"
    /\ favReq[r].pc = "findFavorite"
    /\ UNCHANGED <<users, agents, properties, reviews, contacts, favorites, resp, revReq, authVars, opsVars>>
    /\ IF ExistingFavorite(favReq[r].user, favReq[r].propertyId)
       THEN Answer(r, 409)
       ELSE Goto(r, "create")

\* await prisma.favorite.create(...); res.status(201); a refused insert throws
\* and the catch answers 500.
CreateFavorite(r) ==
    /\ favReq[r].kind = "POST"
    /\ favReq[r].pc = "create"
    /\ UNCHANGED <<users, agents, properties, reviews, contacts, resp, revReq, authVars, opsVars>>
    /\ IF UniqueViolation(favReq[r].user, favReq[r].propertyId) THEN
           /\ Answer(r, 500)
           /\ UNCHANGED favorites
       ELSE
           /\ favorites' = Append(favorites, Favorite(favReq[r].user, favReq[r].propertyId))
           /\ Answer(r, 201)

\* DELETE /favorites/:propertyId up to its first query: 404 when there is no
\* favorite of the caller for the property.
DeleteFavorite(r, userId, propertyId) ==
    /\ favReq[r].pc = "idle"
    /\ Authenticated(userId)
    /\ UNCHANGED <<users, agents, properties, reviews, contacts, favorites, resp, revReq, authVars, opsVars>>
    /\ LET req == [IdleRequest EXCEPT !.kind = "DELETE", !.user = userId,
                                      !.propertyId = propertyId]
       IN  IF ~ExistingFavorite(userId, propertyId) THEN
               favReq' = [favReq EXCEPT ![r] = [req EXCEPT !.pc = "done", !.status = 404]]
           ELSE
               favReq' = [favReq EXCEPT ![r] = [req EXCEPT !.pc = "delete"]]

\* await prisma.favorite.delete(...); res.json(...); delete throws when the
\* record is gone and the catch answers 500.
RemoveFavorite(r) ==
    /\ favReq[r].kind = "DELETE"
    /\ favReq[r].pc = "delete"
    /\ UNCHANGED <<users, agents, properties, reviews, contacts, resp, revReq, authVars, opsVars>>
    /\ IF ExistingFavorite(favReq[r].user, favReq[r].propertyId) THEN
           /\ favorites' = RemoveFirst(favorites,
                                       Favorite(favReq[r].user, favReq[r].propertyId))
           /\ Answer(r, 200)
       ELSE
           /\ Answer(r, 500)
           /\ UNCHANGED favorites

(***************************************************************************)
(* SpecFav: an agent lists a property; users add it to and remove it from  *)
(* their favorites with requests that overlap.                             *)
(***************************************************************************)
NextFav ==
    \/ AdminCreateAgent(AdaBody)
    \/ CreateProperty(2, Body200)
    \/ Receive
    \/ \E r \in FavRequests, u \in {1, 2}, p \in {0, 1} : PostFavorite(r, u, p)
    \/ \E r \in FavRequests : FindFavorite(r)
    \/ \E r \in FavRequests : CreateFavorite(r)
    \/ \E r \in FavRequests, u \in {1, 2} : DeleteFavorite(r, u, 1)
    \/ \E r \in FavRequests : RemoveFavorite(r)

SpecFav == Init /\ [][NextFav]_vars

\* C9: when POST /favorites looks for the favorite of its caller and property
\* and the record exists, the request is answered 409 and the Favorite records
\* are left as they were.
C9_DuplicateFavoriteIs409 ==
    [][\A r \in FavRequests :
          (/\ favReq[r].kind = "POST"
           /\ favReq[r].pc = "findFavorite"
           /\ favReq'[r] # favReq[r]
           /\ \E i \in DOMAIN favorites :
                  /\ favorites[i].userId = favReq[r].user
                  /\ favorites[i].propertyId = favReq[r].propertyId) =>
              /\ favReq'[r].pc = "done"
              /\ favReq'[r].status = 409
              /\ favorites' = favorites]_vars

\* A POST /favorites answered 201 and a later one of the same user for the same
\* property answered 409, with the one record stored.
C9_Witness ==
    \E r1, r2 \in FavRequests :
        /\ favReq[r1].kind = "POST" /\ favReq[r1].status = 201
        /\ favReq[r2].kind = "POST" /\ favReq[r2].status = 409
        /\ favReq[r1].user = favReq[r2].user
        /\ favReq[r1].propertyId = favReq[r2].propertyId
        /\ Len(favorites) = 1
        /\ favorites[1] = Favorite(favReq[r2].user, favReq[r2].propertyId)

\* C10: in every reachable state, whatever the interleaving of POST /favorites
\* and DELETE /favorites/:propertyId requests, no two Favorite records have the
\* same user and the same property.
C10_OneFavoritePerPair ==
    \A i, j \in DOMAIN favorites :
        (favorites[i].userId = favorites[j].userId
            /\ favorites[i].propertyId = favorites[j].propertyId) => i = j

\* Two POST /favorites of one user for one property that both found no record:
\* one inserted it and was answered 201, the other was refused and answered 500,
\* while a DELETE of the same user for the property is in flight or done.
C10_Witness ==
    \E r1, r2, r3 \in FavRequests :
        /\ favReq[r1].kind = "POST" /\ favReq[r1].status = 201
        /\ favReq[r2].kind = "POST" /\ favReq[r2].status = 500
        /\ favReq[r3].kind = "DELETE"
        /\ favReq[r1].user = favReq[r2].user /\ favReq[r3].user = favReq[r1].user
        /\ favReq[r1].propertyId = favReq[r2].propertyId
        /\ ExistingFavorite(favReq[r1].user, favReq[r1].propertyId)

(***************************************************************************)
(* POST /reviews as a process: its queries reach the database one at a     *)
(* time, and the queries of other requests may run between them.           *)
(***************************************************************************)
ReviewRequests == 1..MaxReviewRequests

AnswerReview(r, code, keys) ==
    revReq' = [revReq EXCEPT ![r].pc = "done", ![r].status = code, ![r].body = keys]

\* POST /reviews up to the lookups of its targets: 400 { errors } when the
\* validators fail, 401 without a token, 400 when neither propertyId nor agentId
\* is given, 400 when the property or the agent does not exist.
PostReview(r, token, b) ==
    /\ revReq[r].pc = "idle"
    /\ UNCHANGED <<users, agents, properties, reviews, contacts, favorites, resp,
                   favReq, authVars, opsVars>>
    /\ LET req == [IdleReview EXCEPT !.user = token, !.propertyId = b.propertyId,
                                     !.agentId = b.agentId, !.rating = b.rating,
                                     !.valid = ValidReviewBody(b)]
           done(code, keys) ==
               revReq' = [revReq EXCEPT ![r] = [req EXCEPT !.pc = "done",
                                                           !.status = code,
                                                           !.body = keys]]
       IN  IF ~ValidReviewBody(b) THEN done(400, {"errors"})
           ELSE IF token = 0 THEN done(401, {"message"})
           ELSE IF NoTarget(b) THEN done(400, {"message"})
           ELSE IF b.propertyId # 0 /\ b.propertyId \notin Ids(properties)
                THEN done(400, {"message"})
           ELSE IF b.agentId # 0 /\ b.agentId \notin Ids(agents)
                THEN done(400, {"message"})
           ELSE revReq' = [revReq EXCEPT ![r] = [req EXCEPT !.pc = "findExisting"]]

\* const existingReview = await prisma.review.findFirst(...);
\* if (existingReview) return res.status(400)
FindExistingReview(r) ==
    /\ revReq[r].pc = "findExisting"
    /\ UNCHANGED <<users, agents, properties, reviews, contacts, favorites, resp,
                   favReq, authVars, opsVars>>
    /\ IF ExistingReview(revReq[r].user, revReq[r].propertyId, revReq[r].agentId)
       THEN AnswerReview(r, 400, {"message"})
       ELSE revReq' = [revReq EXCEPT ![r].pc = "create"]

\* const review = await prisma.review.create({ data: reviewData });
\* res.status(201).json({ review })
InsertReview(r) ==
    /\ revReq[r].pc = "create"
    /\ UNCHANGED <<users, agents, properties, contacts, favorites, resp, favReq,
                   authVars, opsVars>>
    /\ reviews' = Append(reviews,
           [id |-> NextId(reviews), userId |-> revReq[r].user,
            propertyId |-> revReq[r].propertyId, agentId |-> revReq[r].agentId,
            rating |-> revReq[r].rating, comment |-> Trim(tComment),
            status |-> PENDING, likes |-> 0, dislikes |-> 0])
    /\ AnswerReview(r, 201, {"review"})

(***************************************************************************)
(* Reads of reviews that need no credentials.                              *)
(***************************************************************************)
ReviewIds(rows) == [i \in DOMAIN rows |-> rows[i].id]

\* A variant of FindProperty that takes the first property there is.
FindFirstProperty(id) == SubSeq(properties, 1, IF properties = <<>> THEN 0 ELSE 1)

\* prisma.property.findUnique({ where: { id: req.params.id } }): the property
\* found, if any.
FindProperty(id) == SelectSeq2(properties, "id" :> Eq(id))

\* GET /properties/:id: findUnique with include: { agent, reviews }.  arg is
\* the id asked for, found the property, items the reviews included.
PropertyByIdResponse(id) ==
    IF FindProperty(id) = <<>> THEN Reply("GET /properties/:id", 404, id)
    ELSE [ReplyWith("GET /properties/:id", 200, id, {"property"})
              EXCEPT !.found = FindProperty(id),
                     !.where = "propertyId" :> Eq(FindProperty(id)[1].id),
                     !.items = ReviewIds(SelectSeq2(reviews,
                                   "propertyId" :> Eq(FindProperty(id)[1].id)))]

GetProperty(id) == Respond(PropertyByIdResponse(id))

\* GET /agents/:agentId/reviews: 404 without the agent, else the reviews of the
\* properties of the agent (where: { property: { agentId } }), newest first.
ReviewOfAgentProperty(rev, agentId) ==
    \E p \in Rows(properties) : p.id = rev.propertyId /\ p.agentId = agentId

RECURSIVE ReviewsOfAgentProperties(_, _)
ReviewsOfAgentProperties(rows, agentId) ==
    IF rows = <<>> THEN <<>>
    ELSE (IF ReviewOfAgentProperty(Head(rows), agentId) THEN <<Head(rows)>> ELSE <<>>)
         \o ReviewsOfAgentProperties(Tail(rows), agentId)

AgentPropertyReviewsResponse(agentId) ==
    IF agentId \notin Ids(agents) THEN Reply("GET /agents/:agentId/reviews", 404, agentId)
    ELSE LET found == Reverse(ReviewIds(ReviewsOfAgentProperties(reviews, agentId)))
         IN  [ReplyWith("GET /agents/:agentId/reviews", 200, agentId,
                        {"reviews", "total"})
                  EXCEPT !.items = found, !.total = Len(found)]

GetAgentPropertyReviews(agentId) == Respond(AgentPropertyReviewsResponse(agentId))

(***************************************************************************)
(* SpecReviews: users review a property and its agent with requests that   *)
(* overlap, the administrator moderates the reviews, anyone reads them.    *)
(***************************************************************************)
ReviewBodies ==
    {ReviewBody(p, a, 5) : p \in {0, 1}, a \in {0, 1}} \cup {ReviewBody(1, 0, 6)}

NextReviews ==
    \/ AdminCreateAgent(AdaBody)
    \/ CreateProperty(2, Body200)
    \/ Receive
    \/ \E r \in ReviewRequests, token \in {0, 2}, b \in ReviewBodies : PostReview(r, token, b)
    \/ \E r \in ReviewRequests : FindExistingReview(r)
    \/ \E r \in ReviewRequests : InsertReview(r)
    \/ \E id \in 1..MaxReviews : AdminApproveReview(id)
    \/ \E id \in 1..MaxReviews : AdminRejectReview(id)
    \/ GetReviews(NoQuery)
    \/ GetPropertyReviews(1, NoQuery)
    \/ GetAgentReviews(1, NoQuery)
    \/ GetUserReviews(2, NoQuery)
    \/ GetProperty(1)
    \/ GetAgentPropertyReviews(1)

SpecReviews == Init /\ [][NextReviews]_vars

\* C11: a POST /reviews with a valid rating and comment and a valid token but
\* neither propertyId nor agentId is answered 400 with a message, and the Review
\* records are left as they were.
C11_NoTargetIs400 ==
    [][\A r \in ReviewRequests :
          (/\ revReq[r].pc = "idle"
           /\ revReq'[r].pc # "idle"
           /\ revReq'[r].valid
           /\ revReq'[r].user # 0
           /\ revReq'[r].propertyId = 0
           /\ revReq'[r].agentId = 0) =>
              /\ revReq'[r].pc = "done"
              /\ revReq'[r].status = 400
              /\ "message" \in revReq'[r].body
              /\ reviews' = reviews]_vars

\* A request with a valid body and token and no target, answered 400, while a
\* property and an agent exist that it could have named.
C11_Witness ==
    /\ properties # <<>>
    /\ agents # <<>>
    /\ \E r \in ReviewRequests :
           /\ revReq[r].valid /\ revReq[r].user # 0
           /\ revReq[r].propertyId = 0 /\ revReq[r].agentId = 0
           /\ revReq[r].status = 400

\* C12: in every reachable state, whatever the interleaving of the POST /reviews
\* requests of a user, no two Review records have the same user and the same
\* property, nor the same user and the same agent.
C12_OneReviewPerTarget ==
    \A i, j \in DOMAIN reviews :
        (i # j /\ reviews[i].userId = reviews[j].userId) =>
            /\ ~(reviews[i].propertyId # 0 /\ reviews[i].propertyId = reviews[j].propertyId)
            /\ ~(reviews[i].agentId # 0 /\ reviews[i].agentId = reviews[j].agentId)

\* The user of the request r already has a review of the property, or of the
\* agent, that r names.
SameTargetReviewed(r) ==
    \E rev \in Rows(reviews) :
        /\ rev.userId = revReq[r].user
        /\ \/ revReq[r].propertyId # 0 /\ rev.propertyId = revReq[r].propertyId
           \/ revReq[r].agentId # 0 /\ rev.agentId = revReq[r].agentId

PublicReviewReads == {"GET /reviews", "GET /reviews/property/:propertyId",
                      "GET /reviews/agent/:agentId", "GET /reviews/user/:userId",
                      "GET /properties/:id", "GET /agents/:agentId/reviews"}

\* C16: no read that needs no admin credentials returns a review whose status is
\* PENDING or REJECTED; a review just created is not returned by them before an
\* administrator approves it.
C16_OnlyApprovedAreReturned ==
    (resp.endpoint \in PublicReviewReads /\ resp.status = 200) =>
        \A id \in Returned : Row(reviews, id).status = APPROVED

(***************************************************************************)
(* SpecAdmin: the administrator creates, approves and rejects agents,      *)
(* properties and reviews; agents create, update and delete properties.    *)
(***************************************************************************)
\* A variant of ApprovedAgent that withdraws an approval already given.
ToggledAgent(agent) ==
    [agent EXCEPT !.verificationStatus =
        IF @ = APPROVED THEN PENDING ELSE APPROVED]

\* data: { verificationStatus: 'APPROVED' }
ApprovedAgent(agent) == [agent EXCEPT !.verificationStatus = APPROVED]

\* POST /admin/agents/:id/approve: findUnique, 404 when there is no such
\* agent, then update and 200 { agent }.  found holds existingAgent.
AdminApproveAgent(id) ==
    /\ ClientReady
    /\ UNCHANGED <<users, properties, reviews, contacts, favorites, favReq, revReq, authVars, opsVars>>
    /\ IF id \notin Ids(agents) THEN
           /\ resp' = Reply("POST /admin/agents/:id/approve", 404, id)
           /\ UNCHANGED agents
       ELSE
           /\ agents' = [i \in DOMAIN agents |->
                            IF agents[i].id = id THEN ApprovedAgent(agents[i])
                            ELSE agents[i]]
           /\ resp' = [ReplyWith("POST /admin/agents/:id/approve", 200, id,
                                  {"agent"})
                           EXCEPT !.found = <<Row(agents, id)>>]

\* POST /admin/agents/:id/reject: update without a lookup; update throws when
\* there is no such agent and the handler answers 500.
AdminRejectAgent(id) ==
    /\ ClientReady
    /\ UNCHANGED <<users, properties, reviews, contacts, favorites, favReq, revReq, authVars, opsVars>>
    /\ IF id \in Ids(agents) THEN
           /\ agents' = UpdateRow(agents, id, "verificationStatus", REJECTED)
           /\ resp' = ReplyWith("POST /admin/agents/:id/reject", 200, id, {"agent"})
       ELSE
           /\ resp' = Reply("POST /admin/agents/:id/reject", 500, id)
           /\ UNCHANGED agents

(***************************************************************************)
(* Accounts: registration, e-mail verification and password reset.  A      *)
(* token is crypto.randomBytes(32): the model draws the next unused number;*)
(* 0 stands for NULL in a token or expiry column and for a request body    *)
(* that carries no token.  ok is whether the mail transport delivers.      *)
(***************************************************************************)
\* new Date(Date.now() + 24 * 60 * 60 * 1000)
VerificationHours == 24
\* new Date(Date.now() + 60 * 60 * 1000)
ResetHours == 1

\* The clock moves on by d hours.
Tick(d) ==
    /\ now + d <= MaxTime
    /\ now' = now + d
    /\ UNCHANGED <<users, agents, properties, reviews, contacts, favorites, resp,
                   favReq, revReq, opsVars, issued, spent, mail>>

Outcome(ok) == IF ok THEN "sent" ELSE "failed"

\* What becomes of the verification mail of a registration: the token is not
\* stored (user.update throws), or it is stored and the send fails, or it is
\* stored and sent.
MailOutcomes == {"unsaved", "failed", "sent"}

\* A variant of TrySend in which a failure fails the request.
SendUnguarded(out, code) == IF out = "sent" THEN code ELSE 500

\* try { await send...(...) } catch (emailError) { console.error(...) }: the
\* status the request goes on to answer with is the same either way.
TrySend(out, code) == code

\* The chains of POST /auth/register.
ValidRegisterBody(b) ==
    /\ IsEmail(b.email)
    /\ Len(b.password) >= 6
    /\ Len(Trim(b.firstName)) >= 2
    /\ Len(Trim(b.lastName)) >= 2
    /\ b.role \in {USER, AGENT}
    /\ b.role = AGENT =>
          /\ b.registrationNumber.present
          /\ Len(Trim(b.registrationNumber.val)) >= 3

\* A variant of NeedsAgent that gives every new user an agent profile.
AlwaysAgent(role) == TRUE

\* if (role === 'AGENT')
NeedsAgent(role) == role = AGENT

\* POST /auth/register.  The user row is created before the registration
\* number is looked up; the verification token is stored and mailed inside a
\* try block of its own.
Register(b, out) ==
    /\ ClientReady
    /\ Len(users) < MaxUsers
    /\ Len(agents) < MaxAgents
    /\ issued < MaxTokens
    /\ UNCHANGED <<properties, reviews, contacts, favorites, favReq, revReq, opsVars, now, spent>>
    /\ LET email == NormalizeEmail(b.email)
           id == NextId(users)
           reg == IF b.registrationNumber.present
                  THEN Trim(b.registrationNumber.val) ELSE <<>>
           user == NewUser(id, email, Trim(b.firstName), Trim(b.lastName),
                           b.role, b.password)
           token == issued + 1
       IN  IF ~ValidRegisterBody(b) THEN
               /\ resp' = ReplyErrors("POST /auth/register")
               /\ mail' = "none"
               /\ UNCHANGED <<users, agents, issued>>
           ELSE IF \E u \in Rows(users) : u.email = email THEN
               /\ resp' = Reply("POST /auth/register", 400, 0)
               /\ mail' = "none"
               /\ UNCHANGED <<users, agents, issued>>
           ELSE IF NeedsAgent(b.role)
                   /\ \E a \in Rows(agents) : a.registrationNumber = reg THEN
               /\ users' = Append(users, user)
               /\ resp' = Reply("POST /auth/register", 400, id)
               /\ mail' = "none"
               /\ UNCHANGED <<agents, issued>>
           ELSE
               /\ users' = Append(users,
                      IF out = "unsaved" THEN user
                      ELSE [user EXCEPT
                               !.emailVerificationToken = token,
                               !.emailVerificationExpires = now + VerificationHours])
               /\ agents' = IF NeedsAgent(b.role)
                            THEN Append(agents,
                                     [id |-> NextId(agents), userId |-> id,
                                      registrationNumber |-> reg,
                                      verificationStatus |-> PENDING])
                            ELSE agents
               /\ issued' = IF out = "unsaved" THEN issued ELSE token
               /\ mail' = out
               /\ resp' = ReplyWith("POST /auth/register", TrySend(out, 201), id,
                                    {"message", "token", "user"})

\* where: { emailVerificationToken: token, emailVerificationExpires: { gt: new
\* Date() } }: an undefined token is no condition, a NULL expiry is after
\* nothing.
VerificationMatches(t) ==
    {i \in DOMAIN users :
        /\ t # 0 => users[i].emailVerificationToken = t
        /\ users[i].emailVerificationExpires # 0
        /\ users[i].emailVerificationExpires > now}

\* A variant of VerifiedUser that leaves the token and its expiry in place.
VerifiedKeepingToken(u) == [u EXCEPT !.emailVerified = TRUE]

\* data: { emailVerified: true, emailVerificationToken: null,
\*         emailVerificationExpires: null }
VerifiedUser(u) ==
    [u EXCEPT !.emailVerified = TRUE, !.emailVerificationToken = 0,
              !.emailVerificationExpires = 0]

\* POST /auth/verify-email.  The handler does not read the validation result;
\* the welcome mail is sent inside a try block of its own.
VerifyEmail(t, ok) ==
    /\ ClientReady
    /\ UNCHANGED <<agents, properties, reviews, contacts, favorites, favReq, revReq, opsVars, now, issued>>
    /\ IF VerificationMatches(t) = {} THEN
           /\ resp' = ReplyWith("POST /auth/verify-email", 400, t, {"message"})
           /\ mail' = "none"
           /\ UNCHANGED <<users, spent>>
       ELSE \E i \in VerificationMatches(t) :
           /\ users' = [users EXCEPT ![i] = VerifiedUser(@)]
           /\ spent' = spent \cup ({t} \ {0})
           /\ mail' = Outcome(ok)
           /\ resp' = ReplyWith("POST /auth/verify-email",
                                TrySend(Outcome(ok), 200), t,
                                {"message"})

\* POST /auth/forgot-password: an unknown address is answered like a known
\* one; the send is awaited in the handler's own try block.
ForgotPassword(email, ok) ==
    /\ ClientReady
    /\ issued < MaxTokens
    /\ UNCHANGED <<agents, properties, reviews, contacts, favorites, favReq, revReq, opsVars, now, spent>>
    /\ IF ~\E u \in Rows(users) : u.email = NormalizeEmail(email) THEN
           /\ resp' = ReplyWith("POST /auth/forgot-password", 200, 0, {"message"})
           /\ mail' = "none"
           /\ UNCHANGED <<users, issued>>
       ELSE
           /\ users' = [i \in DOMAIN users |->
                           IF users[i].email = NormalizeEmail(email)
                           THEN [users[i] EXCEPT
                                    !.passwordResetToken = issued + 1,
                                    !.passwordResetExpires = now + ResetHours]
                           ELSE users[i]]
           /\ issued' = issued + 1
           /\ mail' = Outcome(ok)
           /\ resp' = ReplyWith("POST /auth/forgot-password",
                                IF ok THEN 200 ELSE 500, issued + 1, {"message"})

\* where: { passwordResetToken: token, passwordResetExpires: { gt: new Date() } }
ResetMatches(t) ==
    {i \in DOMAIN users :
        /\ t # 0 => users[i].passwordResetToken = t
        /\ users[i].passwordResetExpires # 0
        /\ users[i].passwordResetExpires > now}

\* POST /auth/reset-password
ResetPassword(t, password) ==
    /\ ClientReady
    /\ UNCHANGED <<agents, properties, reviews, contacts, favorites, favReq, revReq, opsVars, now, issued>>
    /\ mail' = "none"
    /\ IF ResetMatches(t) = {} THEN
           /\ resp' = ReplyWith("POST /auth/reset-password", 400, t, {"message"})
           /\ UNCHANGED <<users, spent>>
       ELSE \E i \in ResetMatches(t) :
           /\ users' = [users EXCEPT ![i] =
                           [@ EXCEPT !.password = Hash(password),
                                     !.passwordResetToken = 0,
                                     !.passwordResetExpires = 0]]
           /\ spent' = spent \cup ({t} \ {0})
           /\ resp' = ReplyWith("POST /auth/reset-password", 200, t, {"message"})

AdaRegistration ==
    [email |-> tAdaEmail, password |-> tSecret, firstName |-> tAda,
     lastName |-> tObi, role |-> USER, registrationNumber |-> Absent]
BolaRegistration ==
    [email |-> tBolaEmail, password |-> tSecret, firstName |-> tBola,
     lastName |-> tObi, role |-> AGENT, registrationNumber |-> P(tReg1)]
ShortPasswordRegistration == [AdaRegistration EXCEPT !.password = sAbc]

Tokens == 0..MaxTokens

NextAuth ==
    \/ \E b \in {AdaRegistration, ShortPasswordRegistration}, out \in MailOutcomes :
           Register(b, out)
    \/ \E t \in Tokens, ok \in BOOLEAN : VerifyEmail(t, ok)
    \/ \E e \in {tAdaEmail, tJohnEmail}, ok \in BOOLEAN : ForgotPassword(e, ok)
    \/ \E t \in Tokens : ResetPassword(t, tNewPass)
    \/ \E d \in {ResetHours, VerificationHours} : Tick(d)
    \/ Receive

SpecAuth == Init /\ [][NextAuth]_vars

\* PUT /reviews/:id/approve and PUT /reviews/:id/reject (authenticate,
\* requireAdmin): findUnique, 404 when there is no such review, then update.
ModerateReview(endpoint, id, status) ==
    /\ ClientReady
    /\ UNCHANGED <<users, agents, properties, contacts, favorites, favReq, revReq, authVars, opsVars>>
    /\ IF id \notin Ids(reviews) THEN
           /\ resp' = Reply(endpoint, 404, id)
           /\ UNCHANGED reviews
       ELSE
           /\ reviews' = UpdateRow(reviews, id, "status", status)
           /\ resp' = ReplyWith(endpoint, 200, id, {"review"})

ApproveReview(id) == ModerateReview("PUT /reviews/:id/approve", id, APPROVED)

RejectReview(id) == ModerateReview("PUT /reviews/:id/reject", id, REJECTED)

\* prisma.agent.findFirst({ where: { user: { role: 'ADMIN' } } })
SystemAgents == {a \in Rows(agents) : Row(users, a.userId).role = ADMIN}

\* POST /admin/properties: the property is given to the agent record of an
\* administrator, which is created when there is none.
AdminCreateProperty(b) ==
    /\ ClientReady
    /\ Len(properties) < MaxProps
    /\ SystemAgents = {} => Len(agents) < MaxAgents
    /\ UNCHANGED <<users, reviews, contacts, favorites, favReq, revReq, authVars, opsVars>>
    /\ LET admin == users[CHOOSE i \in DOMAIN users :
                              /\ users[i].role = ADMIN
                              /\ \A j \in DOMAIN users :
                                     users[j].role = ADMIN => i <= j]
           agentId == IF SystemAgents = {} THEN NextId(agents)
                      ELSE (CHOOSE a \in SystemAgents : TRUE).id
       IN  IF ~ValidPropertyBody(b) THEN
               /\ resp' = ReplyErrors("POST /admin/properties")
               /\ UNCHANGED <<agents, properties>>
           ELSE IF ~\E u \in Rows(users) : u.role = ADMIN THEN
               /\ resp' = Reply("POST /admin/properties", 400, 0)
               /\ UNCHANGED <<agents, properties>>
           ELSE IF /\ SystemAgents = {}
                   /\ \E a \in Rows(agents) : a.registrationNumber = tSystemAdmin THEN
               /\ resp' = Reply("POST /admin/properties", 500, 0)
               /\ UNCHANGED <<agents, properties>>
           ELSE
               /\ agents' = IF SystemAgents = {}
                            THEN Append(agents,
                                     [id |-> agentId, userId |-> admin.id,
                                      registrationNumber |-> tSystemAdmin,
                                      verificationStatus |-> APPROVED])
                            ELSE agents
               /\ properties' = Append(properties,
                      [id |-> NextId(properties), title |-> Trim(b.title),
                       description |-> Trim(b.description), price |-> b.price,
                       address |-> Trim(b.address), city |-> Trim(b.city),
                       state |-> Trim(b.state), zipCode |-> Trim(b.zipCode),
                       bedrooms |-> b.bedrooms, bathrooms |-> b.bathrooms,
                       squareFootage |-> b.squareFootage,
                       propertyType |-> b.propertyType,
                       status |-> ACTIVE, agentId |-> agentId])
               /\ resp' = ReplyWith("POST /admin/properties", 201,
                                    NextId(properties), {"property"})

\* The chains of PUT /properties/:id that the bodies drawn here can fail: every
\* field is optional.
ValidPropertyUpdate(b) ==
    /\ b.title.present => Len(Trim(b.title.val)) >= 3
    /\ b.price.present => b.price.val >= 0

\* prisma.property.update({ where: { id }, data: req.body }): every key of the
\* body is written.
UpdatedProperty(p, b) ==
    [p EXCEPT !.title = IF b.title.present THEN Trim(b.title.val) ELSE @,
              !.price = IF b.price.present THEN b.price.val ELSE @,
              !.status = IF b.status.present THEN b.status.val ELSE @,
              !.agentId = IF b.agentId.present THEN b.agentId.val ELSE @]

\* The agent record of the caller and its ownership of the property:
\*   if (!agent || property.agentId !== agent.id)
Owns(caller, id) ==
    \E a \in Rows(agents) : a.userId = caller /\ Row(properties, id).agentId = a.id

\* PUT /properties/:id (authenticate, requireAgent).  A status that is not a
\* member of the enum, or an agentId that no agent has (the foreign key),
\* makes update throw.
UpdateProperty(caller, id, b) ==
    /\ ClientReady
    /\ RequireAgent(caller)
    /\ UNCHANGED <<users, agents, reviews, contacts, favorites, favReq, revReq, authVars, opsVars>>
    /\ IF ~ValidPropertyUpdate(b) THEN
           /\ resp' = ReplyErrors("PUT /properties/:id")
           /\ UNCHANGED properties
       ELSE IF id \notin Ids(properties) THEN
           /\ resp' = Reply("PUT /properties/:id", 404, id)
           /\ UNCHANGED properties
       ELSE IF ~Owns(caller, id) THEN
           /\ resp' = Reply("PUT /properties/:id", 403, id)
           /\ UNCHANGED properties
       ELSE IF \/ b.status.present /\ b.status.val \notin PropertyStatuses
               \/ b.agentId.present /\ b.agentId.val \notin Ids(agents) THEN
           /\ resp' = Reply("PUT /properties/:id", 500, id)
           /\ UNCHANGED properties
       ELSE
           /\ properties' = [i \in DOMAIN properties |->
                                IF properties[i].id = id
                                THEN UpdatedProperty(properties[i], b)
                                ELSE properties[i]]
           /\ resp' = ReplyWith("PUT /properties/:id", 200, id, {"property"})

\* DELETE /properties/:id (authenticate, requireAgent)
DeleteProperty(caller, id) ==
    /\ ClientReady
    /\ RequireAgent(caller)
    /\ UNCHANGED <<users, agents, reviews, contacts, favorites, favReq, revReq, authVars, opsVars>>
    /\ IF id \notin Ids(properties) THEN
           /\ resp' = Reply("DELETE /properties/:id", 404, id)
           /\ UNCHANGED properties
       ELSE IF ~Owns(caller, id) THEN
           /\ resp' = Reply("DELETE /properties/:id", 403, id)
           /\ UNCHANGED properties
       ELSE
           /\ properties' = SelectSeq(properties, LAMBDA p : p.id # id)
           /\ resp' = ReplyWith("DELETE /properties/:id", 200, id, {"message"})

NoUpdate == [title |-> Absent, price |-> Absent, status |-> Absent,
             agentId |-> Absent]
UpdateBodies ==
    {[NoUpdate EXCEPT !.title = P(tFlat)],
     [NoUpdate EXCEPT !.status = P(ACTIVE)],
     [NoUpdate EXCEPT !.status = P(sBogus)],
     [NoUpdate EXCEPT !.price = P(-1)]}

AgentIds == 1..MaxAgents
ReviewIdsAsked == 1..MaxReviews

NextAdmin ==
    \/ AdminCreateAgent(AdaBody)
    \/ \E id \in AgentIds : AdminApproveAgent(id)
    \/ \E id \in AgentIds : AdminRejectAgent(id)
    \/ \E u \in Ids(users), b \in {Body100, NegativePriceBody} : CreateProperty(u, b)
    \/ \E b \in {Body200, NegativePriceBody} : AdminCreateProperty(b)
    \/ \E u \in Ids(users), id \in PropertyIds, b \in UpdateBodies :
           UpdateProperty(u, id, b)
    \/ \E u \in Ids(users), id \in PropertyIds : DeleteProperty(u, id)
    \/ \E id \in PropertyIds : AdminApproveProperty(id)
    \/ \E id \in PropertyIds : AdminRejectProperty(id)
    \/ \E id \in ReviewIdsAsked : AdminApproveReview(id)
    \/ \E id \in ReviewIdsAsked : AdminRejectReview(id)
    \/ \E id \in ReviewIdsAsked : ApproveReview(id)
    \/ \E id \in ReviewIdsAsked : RejectReview(id)
    \/ Receive

SpecAdmin == Init /\ [][NextAdmin]_vars

TokenEndpoints == {"POST /auth/verify-email", "POST /auth/reset-password"}

\* The token t is held by a user whose expiry for it has passed.
Expired(t) ==
    \E u \in Rows(users) :
        \/ u.emailVerificationToken = t /\ u.emailVerificationExpires <= now
        \/ u.passwordResetToken = t /\ u.passwordResetExpires <= now

\* C17: a verify-email or reset-password request that succeeds with the token
\* T leaves no user holding T; a later request that presents a token already
\* used, or a token whose expiry has passed, is answered 400 and changes no
\* field of any user.
C17_UsedTokensAreDead ==
    [][(resp.endpoint = "none" /\ resp'.endpoint \in TokenEndpoints
        /\ resp'.arg # 0) =>
           /\ resp'.status = 200 =>
                 \A u \in Rows(users') :
                     /\ u.emailVerificationToken # resp'.arg
                     /\ u.passwordResetToken # resp'.arg
           /\ (resp'.arg \in spent \/ Expired(resp'.arg)) =>
                 /\ resp'.status = 400
                 /\ users' = users]_vars

\* A verify-email request presenting a token that an earlier request was
\* verified with, answered 400.
C17_Witness ==
    /\ resp.endpoint = "POST /auth/verify-email"
    /\ resp.arg \in spent
    /\ resp.status = 400
    /\ \E u \in Rows(users) : u.emailVerified

\* A reset-password request presenting a token whose hour has passed.
C17_WitnessExpired ==
    /\ resp.endpoint = "POST /auth/reset-password"
    /\ resp.arg # 0
    /\ resp.status = 400
    /\ \E u \in Rows(users) :
           u.passwordResetToken = resp.arg /\ u.passwordResetExpires <= now

\* C18: when storing the verification token or sending the mail fails, POST
\* /auth/register still answers 201 with the user created and a token, and POST /auth/verify-email still answers 200 with
\* the user verified.
C18_MailFailureIsNotFatal ==
    mail \in {"unsaved", "failed"} =>
        /\ resp.endpoint = "POST /auth/register" =>
               /\ resp.status = 201
               /\ {"token", "user"} \subseteq resp.body
               /\ resp.arg \in Ids(users)
        /\ resp.endpoint = "POST /auth/verify-email" =>
               resp.status = 200 /\ \E u \in Rows(users) : u.emailVerified

\* A registration answered 201 although its verification mail was not sent.
C18_Witness ==
    /\ mail = "failed"
    /\ resp.endpoint = "POST /auth/register"
    /\ resp.status = 201
    /\ resp.arg \in Ids(users)

\* The agents, and the properties of an administrator, that the operations
\* creating agents give rise to.
NextAgents ==
    \/ \E b \in {AdaBody, BolaBody} : AdminCreateAgent(b)
    \/ \E b \in {AdaRegistration, BolaRegistration}, out \in MailOutcomes :
           Register(b, out)
    \/ \E id \in AgentIds : AdminApproveAgent(id)
    \/ \E id \in AgentIds : AdminRejectAgent(id)
    \/ \E b \in {Body200, NegativePriceBody} : AdminCreateProperty(b)
    \/ Receive

SpecAgents == Init /\ [][NextAgents]_vars

NonAdminWrites == {"POST /properties", "PUT /properties/:id"}

\* C14: no POST /properties and no PUT /properties/:id, whatever its body,
\* leaves a property ACTIVE that was not ACTIVE before the request.
C14_OnlyAdminActivates ==
    [][(resp.endpoint = "none" /\ resp'.endpoint \in NonAdminWrites) =>
           \A p \in Rows(properties') :
               p.status = ACTIVE =>
                   /\ p.id \in Ids(properties)
                   /\ Row(properties, p.id).status = ACTIVE]_vars

\* C15 as stated: each user has at most one agent record, and the user of
\* every agent record has the role AGENT.
C15_AgentsBelongToAgents ==
    /\ \A a, b \in Rows(agents) : a.userId = b.userId => a = b
    /\ \A a \in Rows(agents) : Row(users, a.userId).role = AGENT

\* C15: each user has at most one agent record, and the user of every agent
\* record has the role AGENT, but for the SYSTEM-ADMIN record that POST
\* /admin/properties creates for an administrator.
C15_AgentsBelongToAgentsOrSystem ==
    /\ \A a, b \in Rows(agents) : a.userId = b.userId => a = b
    /\ \A a \in Rows(agents) :
           \/ Row(users, a.userId).role = AGENT
           \/ /\ a.registrationNumber = tSystemAdmin
              /\ Row(users, a.userId).role = ADMIN

\* A registered user without an agent record, the agent record of a
\* registered agent, and the record POST /admin/properties made.
C15_Witness ==
    /\ \E u \in Rows(users) : u.role = USER
    /\ \E a \in Rows(agents) :
           /\ a.registrationNumber = tSystemAdmin
           /\ Row(users, a.userId).role = ADMIN
    /\ \E a \in Rows(agents) :
           /\ Row(users, a.userId).role = AGENT
           /\ Row(users, a.userId).emailVerificationToken # 0

MissingIdEndpoints ==
    [agents |-> {"POST /admin/agents/:id/approve", "POST /admin/agents/:id/reject"},
     properties |-> {"POST /admin/properties/:id/approve",
                     "POST /admin/properties/:id/reject",
                     "PUT /properties/:id", "DELETE /properties/:id"},
     reviews |-> {"POST /admin/reviews/:id/approve", "POST /admin/reviews/:id/reject",
                  "PUT /reviews/:id/approve", "PUT /reviews/:id/reject"}]

\* C19: a request naming an agent, property or review id that does not exist
\* is answered 404 and changes no stored record.
C19_MissingIdIs404 ==
    [][(/\ resp.endpoint = "none"
        /\ "errors" \notin resp'.body
        /\ \/ resp'.endpoint \in MissingIdEndpoints.agents
              /\ resp'.arg \notin Ids(agents)
           \/ resp'.endpoint \in MissingIdEndpoints.properties
              /\ resp'.arg \notin Ids(properties)
           \/ resp'.endpoint \in MissingIdEndpoints.reviews
              /\ resp'.arg \notin Ids(reviews)) =>
           /\ resp'.status = 404
           /\ "message" \in resp'.body
           /\ UNCHANGED <<users, agents, properties, reviews, contacts, favorites>>]_vars

ErrorStatuses == {400, 401, 403, 404, 409, 500, 503}

\* C20: every response with an error status is a JSON object with a message
\* field.
C20_ErrorsCarryMessage ==
    resp.status \in ErrorStatuses => "message" \in resp.body

(***************************************************************************)
(* SpecContact: visitors submit the contact form and the submissions are   *)
(* listed.                                                                 *)
(***************************************************************************)
tLoudJohn == <<" ","J","o","h","n"," ">>
tLoudJohnEmail == <<"J","o","h","n","@","X",".","n","g">>
LoudJohnBody == [JohnBody EXCEPT !.name = tLoudJohn, !.email = tLoudJohnEmail,
                                 !.inquiryType = tSales]
AdaContactBody == [JohnBody EXCEPT !.name = tAda, !.email = tAdaEmail]
ShortPhoneBody == [JohnBody EXCEPT !.phone = P(tZip)]
ContactBodies == {JohnBody, LoudJohnBody, AdaContactBody, ShortSubjectBody,
                  ShortPhoneBody}

NextContact ==
    \/ \E b \in ContactBodies : ContactSubmit(b)
    \/ \E q \in StatusQueries \cup PageQueries : GetSubmissions(q)
    \/ Receive

SpecContact == Init /\ [][NextContact]_vars

\* The last row of the contacts table after a request, the rows before it
\* being those of the table before the request.
Persisted == contacts'[Len(contacts')]
OneMoreContact ==
    /\ Len(contacts') = Len(contacts) + 1
    /\ SubSeq(contacts', 1, Len(contacts)) = contacts

NextBrowse ==
    \/ AdminCreateAgent(AdaBody)
    \/ \E b \in {Body100, Body200} : CreateProperty(2, b)
    \/ \E id \in PropertyIds : AdminApproveProperty(id)
    \/ \E id \in PropertyIds : DeleteProperty(2, id)
    \/ GetProperties(NoQuery)
    \/ \E id \in PropertyIds : GetProperty(id)
    \/ Receive

SpecBrowse == Init /\ [][NextBrowse]_vars

Stores == <<users, agents, properties, reviews, contacts, favorites>>

\* C24: GET /properties/:id changes no record; it is answered 200 with a
\* property whose id is the id asked for when a property has that id, and 404
\* with a message when none has; every id that GET /properties returns is one
\* that GET /properties/:id answers 200 for.
C24_PropertyByIdIsFoundOr404 ==
    [][/\ (resp.endpoint = "none" /\ resp'.endpoint = "GET /properties/:id") =>
              /\ UNCHANGED Stores
              /\ IF resp'.arg \in Ids(properties)
                 THEN /\ resp'.status = 200
                      /\ "property" \in resp'.body
                      /\ Len(resp'.found) = 1
                      /\ resp'.found[1] = Row(properties, resp'.arg)
                 ELSE /\ resp'.status = 404
                      /\ "message" \in resp'.body
       /\ (resp.endpoint = "none" /\ resp'.endpoint = "GET /properties"
           /\ resp'.status = 200) =>
              \A i \in DOMAIN resp'.items :
                  /\ PropertyByIdResponse(resp'.items[i]).status = 200
                  /\ PropertyByIdResponse(resp'.items[i]).found[1].id = resp'.items[i]
      ]_vars

\* The second of two properties opened by its id after the first was removed.
C24_Witness ==
    /\ resp.endpoint = "GET /properties/:id"
    /\ resp.status = 200
    /\ resp.arg = 2
    /\ resp.found[1].id = 2
    /\ Ids(properties) = {2}

\* A property opened by an id that no property has while others exist.
C24_WitnessMissing ==
    /\ resp.endpoint = "GET /properties/:id"
    /\ resp.status = 404
    /\ properties # <<>>

\* C27: a POST /auth/register answered with an error status leaves the users
\* and the agents as they were.
C27_RejectedRegistrationCreatesNothing ==
    [][(/\ resp.endpoint = "none"
        /\ resp'.endpoint = "POST /auth/register"
        /\ resp'.status \in ErrorStatuses) =>
           /\ users' = users
           /\ agents' = agents]_vars

(***************************************************************************)
(* SpecOwners: two agents create, update and delete properties.            *)
(***************************************************************************)
TransferBodies ==
    {[NoUpdate EXCEPT !.title = P(tFlat)],
     [NoUpdate EXCEPT !.price = P(-1)]}
    \cup {[NoUpdate EXCEPT !.agentId = P(a)] : a \in 1..(MaxAgents + 1)}

NextOwners ==
    \/ \E b \in {AdaBody, BolaBody} : AdminCreateAgent(b)
    \/ \E u \in Ids(users) : CreateProperty(u, Body100)
    \/ \E u \in Ids(users), id \in PropertyIds, b \in TransferBodies :
           UpdateProperty(u, id, b)
    \/ \E u \in Ids(users), id \in PropertyIds : DeleteProperty(u, id)
    \/ Receive

SpecOwners == Init /\ [][NextOwners]_vars

\* C28: a PUT (with a valid body) or DELETE of an existing property by a caller
\* whose agent record does not own it is answered 403 and leaves the
\* properties unchanged, and after a PUT answered 200 the agentId of the
\* property is what it was.
C28_OwnershipIsPreserved ==
    [][/\ \A u \in Ids(users), id \in Ids(properties) :
              ~Owns(u, id) =>
                  /\ \A b \in TransferBodies :
                         (ValidPropertyUpdate(b) /\ UpdateProperty(u, id, b)) =>
                             resp'.status = 403 /\ properties' = properties
                  /\ DeleteProperty(u, id) =>
                         resp'.status = 403 /\ properties' = properties
       /\ (/\ resp.endpoint = "none"
           /\ resp'.endpoint = "PUT /properties/:id"
           /\ resp'.status = 200) =>
              Row(properties', resp'.arg).agentId = Row(properties, resp'.arg).agentId
      ]_vars

\* What POST /auth/forgot-password answers for an address no user has,
\* whatever the mail transport does.
UnknownAddressResponse ==
    ReplyWith("POST /auth/forgot-password", 200, 0, {"message"})

\* C25: every answer of POST /auth/forgot-password has the status and the body
\* of the answer given for an address that no user has.
C25_ForgotPasswordRevealsNothing ==
    resp.endpoint = "POST /auth/forgot-password" =>
        /\ resp.status = UnknownAddressResponse.status
        /\ resp.body = UnknownAddressResponse.body


(***************************************************************************)
(* POST /reviews/:id/like and POST /reviews/:id/dislike.  Each request is  *)
(* a process whose pc names the await it is suspended at, so that the      *)
(* steps of two requests interleave.                                       *)
(***************************************************************************)
LikeRequests == 1..MaxLikeRequests

LikeKinds == {"like", "dislike"}

\* review.likes or review.dislikes, by the route that was asked.
Counter(kind, review) == IF kind = "like" THEN review.likes ELSE review.dislikes

\* (review.likes || 0) + 1
OneMore(n) == (IF n = 0 THEN 0 ELSE n) + 1

AnswerLike(r, code) == likeReq' = [likeReq EXCEPT ![r].pc = "done", ![r].status = code]

\* POST /reviews/:id/like up to its first query: 401 without a token.
PostLike(r, kind, token, id) ==
    /\ likeReq[r].pc = "idle"
    /\ UNCHANGED <<users, agents, properties, reviews, contacts, favorites, resp,
                   favReq, revReq, authVars, db, env>>
    /\ LET req == [IdleLike EXCEPT !.kind = kind, !.id = id]
       IN  IF token = 0 THEN
               likeReq' = [likeReq EXCEPT ![r] = [req EXCEPT !.pc = "done", !.status = 401]]
           ELSE
               likeReq' = [likeReq EXCEPT ![r] = [req EXCEPT !.pc = "findReview"]]

\* const review = await prisma.review.findUnique({ where: { id } });
\* if (!review) return res.status(404)
FindReview(r) ==
    /\ likeReq[r].pc = "findReview"
    /\ UNCHANGED <<users, agents, properties, reviews, contacts, favorites, resp,
                   favReq, revReq, authVars, db, env>>
    /\ IF likeReq[r].id \notin Ids(reviews) THEN AnswerLike(r, 404)
       ELSE likeReq' = [likeReq EXCEPT
                ![r].pc = "update",
                ![r].read = Counter(likeReq[r].kind, Row(reviews, likeReq[r].id))]

\* await prisma.review.update({ where: { id }, data: { likes: (review.likes || 0) + 1 } });
\* res.json({ review: updatedReview })
UpdateCounter(r) ==
    /\ likeReq[r].pc = "update"
    /\ UNCHANGED <<users, agents, properties, contacts, favorites, resp, favReq,
                   revReq, authVars, db, env>>
    /\ reviews' = UpdateRow(reviews, likeReq[r].id,
                            IF likeReq[r].kind = "like" THEN "likes" ELSE "dislikes",
                            OneMore(likeReq[r].read))
    /\ AnswerLike(r, 200)

(***************************************************************************)
(* SpecLikes: users review an agent, and readers like and dislike the      *)
(* reviews with requests that overlap.                                     *)
(***************************************************************************)
NextLikes ==
    \/ AdminCreateAgent(AdaBody)
    \/ \E token \in {1, 2} : CreateReview(token, ReviewBody(0, 1, 5))
    \/ Receive
    \/ \E r \in LikeRequests, kind \in LikeKinds, token \in {0, 2}, id \in 1..MaxReviews :
           PostLike(r, kind, token, id)
    \/ \E r \in LikeRequests : FindReview(r)
    \/ \E r \in LikeRequests : UpdateCounter(r)

SpecLikes == Init /\ [][NextLikes]_vars

\* The like (dislike) requests on a review that have been answered 200.
Completed(kind, id) ==
    {r \in LikeRequests : /\ likeReq[r].pc = "done"
                          /\ likeReq[r].status = 200
                          /\ likeReq[r].kind = kind
                          /\ likeReq[r].id = id}

\* C26: a review's likes counter is the number of like requests on it that were
\* answered 200, and its dislikes counter the number of dislike requests on it
\* that were answered 200, however the reads and writes of the requests
\* interleave; its rating and status stay as they were created.
C26_EveryLikeCounts ==
    \A rev \in Rows(reviews) :
        /\ rev.likes = Cardinality(Completed("like", rev.id))
        /\ rev.dislikes = Cardinality(Completed("dislike", rev.id))
        /\ rev.rating = 5
        /\ rev.status = PENDING


(***************************************************************************)
(* DatabaseManager (config/database.js): connectWithRetry is a loop whose  *)
(* pc names the await it is suspended at.                                  *)
(***************************************************************************)
\* this.maxRetries = 3; this.retryDelay = 1000;
maxRetries == 3
retryDelay == 1000

\* What a failed $connect() throws: Prisma's P1000 (authentication failed),
\* P1001 (server unreachable) or P1002 (timed out).
ConnectErrors == {"P1000", "P1001", "P1002"}

\* A variant of Retrying that allows one attempt more.
RetryingOnceMore(retries) == retries <= maxRetries

\* retries < this.maxRetries: the loop condition and the test in the catch block.
Retrying(retries) == retries < maxRetries

\* connectWithRetry():  let retries = 0;  while (retries < this.maxRetries) {
ConnectWithRetry ==
    /\ db.pc \in {"idle", "returned", "thrown", "fellThrough"}
    /\ db.calls < MaxCalls
    /\ db' = [NotConnecting EXCEPT
                 !.pc = IF Retrying(0) THEN "connect" ELSE "fellThrough",
                 !.connected = db.connected, !.calls = db.calls + 1]
    /\ UNCHANGED <<users, agents, properties, reviews, contacts, favorites, resp,
                   favReq, revReq, authVars, likeReq, env>>

\* await this.prisma.$connect() resolves:  return true;
Connected ==
    /\ db.pc = "connect"
    /\ db' = [db EXCEPT !.pc = "returned", !.attempts = @ + 1,
                        !.returned = "true", !.connected = TRUE]
    /\ UNCHANGED <<users, agents, properties, reviews, contacts, favorites, resp,
                   favReq, revReq, authVars, likeReq, env>>

\* await this.prisma.$connect() rejects with error:  retries++;
\* if (retries < this.maxRetries) wait, else throw error.
ConnectFailed(error) ==
    /\ db.pc = "connect"
    /\ db' = [db EXCEPT !.attempts = @ + 1, !.retries = @ + 1,
                        !.errors = Append(@, error),
                        !.pc = IF Retrying(db.retries + 1) THEN "wait" ELSE "thrown",
                        !.thrown = IF Retrying(db.retries + 1) THEN "none" ELSE error]
    /\ UNCHANGED <<users, agents, properties, reviews, contacts, favorites, resp,
                   favReq, revReq, authVars, likeReq, env>>

\* await new Promise(resolve => setTimeout(resolve, this.retryDelay)) resolves,
\* and the loop condition is tested again.
RetryDelay ==
    /\ db.pc = "wait"
    /\ db' = [db EXCEPT !.waited = @ + retryDelay,
                        !.pc = IF Retrying(db.retries) THEN "connect" ELSE "fellThrough"]
    /\ UNCHANGED <<users, agents, properties, reviews, contacts, favorites, resp,
                   favReq, revReq, authVars, likeReq, env>>

\* disconnect(): await this.prisma.$disconnect(), a failure is logged only.
Disconnect(ok) ==
    /\ db' = [db EXCEPT !.connected = IF ok THEN FALSE ELSE @]
    /\ UNCHANGED <<users, agents, properties, reviews, contacts, favorites, resp,
                   favReq, revReq, authVars, likeReq, env>>

(***************************************************************************)
(* SpecDb: the DatabaseManager is asked to connect, and to disconnect,     *)
(* while the connection attempts succeed or fail.  SpecDbFair adds that    *)
(* a pending $connect() settles and a pending timer fires.                 *)
(***************************************************************************)
Settle == Connected \/ \E error \in ConnectErrors : ConnectFailed(error)

NextDb ==
    \/ ConnectWithRetry
    \/ Connected
    \/ \E error \in ConnectErrors : ConnectFailed(error)
    \/ RetryDelay
    \/ \E ok \in BOOLEAN : Disconnect(ok)

SpecDb == Init /\ [][NextDb]_vars

SpecDbFair == SpecDb /\ WF_vars(Settle) /\ WF_vars(RetryDelay)

\* The call of connectWithRetry is running, and it has ended.
Running == db.pc \in {"connect", "wait"}
Ended == db.pc \in {"returned", "thrown"}

\* What holds of a call of connectWithRetry at each of its steps.
AtMostMaxRetries ==
    /\ db.attempts <= maxRetries
    /\ db.pc # "fellThrough"
    /\ db.pc = "connect" =>
           /\ db.attempts = Len(db.errors)
           /\ db.waited = retryDelay * Len(db.errors)
    /\ db.pc = "wait" =>
           /\ Len(db.errors) < maxRetries
           /\ db.waited = retryDelay * (Len(db.errors) - 1)
    /\ db.pc = "returned" =>
           /\ db.returned = "true" /\ db.thrown = "none"
           /\ db.attempts = Len(db.errors) + 1
           /\ db.waited = retryDelay * Len(db.errors)
    /\ db.pc = "thrown" =>
           /\ db.returned = "none"
           /\ db.attempts = maxRetries /\ Len(db.errors) = maxRetries
           /\ db.thrown = db.errors[maxRetries]
           /\ db.waited = retryDelay * (maxRetries - 1)

\* C30: connectWithRetry ends, having made at most maxRetries attempts: it
\* returns true at its first successful attempt and makes no attempt after it,
\* it has waited retryDelay after each failed attempt that another attempt
\* follows, and after maxRetries failures in a row it throws the error of the
\* last attempt.
C30_ConnectWithRetryTerminates ==
    /\ []AtMostMaxRetries
    /\ Running ~> Ended

\* The third attempt in a row has failed, with another error than the second.
C30_Witness ==
    /\ db.pc = "thrown"
    /\ db.errors[2] # db.errors[maxRetries]
    /\ db.thrown = db.errors[maxRetries]

\* The second attempt succeeded, after one wait.
C30_WitnessReturned ==
    /\ db.pc = "returned"
    /\ Len(db.errors) = 1
    /\ db.waited = retryDelay


(***************************************************************************)
(* Endpoints whose storage query may fail: GET /favorites, GET /health     *)
(* and GET /auth-debug/health-debug.  texts holds the messages that the    *)
(* body carries as values.                                                 *)
(***************************************************************************)
\* process.env.NODE_ENV: set to production or development, or not set.
NodeEnvs == {"production", "development", "unset"}

\* error.message of a storage query that failed.
tStorageError == "Can't reach database server"
tGenericHealth == "Database connection failed"

\* The properties a user has marked, newest favorite first.
FavoriteProperties(userId) ==
    LET mine == SelectSeq(favorites, LAMBDA f : f.userId = userId)
    IN  Reverse([i \in DOMAIN mine |-> mine[i].propertyId])

\* { message, details: NODE_ENV === 'development' ? error.message : undefined }
ErrorTexts == IF env = "development" THEN {tStorageError} ELSE {}

\* GET /favorites: { properties, total }, and the catch block's 500.
GetFavorites(userId, fails) ==
    /\ ClientReady
    /\ Authenticated(userId)
    /\ UNCHANGED <<users, agents, properties, reviews, contacts, favorites, favReq,
                   revReq, authVars, opsVars>>
    /\ resp' = IF fails
               THEN [ReplyWith("GET /favorites", 500, userId, ErrorKeys)
                        EXCEPT !.texts = ErrorTexts]
               ELSE [ReplyWith("GET /favorites", 200, userId, {"properties", "total"})
                        EXCEPT !.items = FavoriteProperties(userId),
                               !.total = Len(FavoriteProperties(userId))]

\* GET /health: 200 { status, timestamp, database, environment }, or 503 with
\* error: NODE_ENV === 'development' ? error.message : 'Database connection failed'
HealthCheck(fails) ==
    /\ ClientReady
    /\ UNCHANGED <<users, agents, properties, reviews, contacts, favorites, favReq,
                   revReq, authVars, opsVars>>
    /\ resp' = IF fails
               THEN [ReplyWith("GET /health", 503, 0,
                               {"status", "timestamp", "database", "error"})
                        EXCEPT !.texts = IF env = "development" THEN {tStorageError}
                                         ELSE {tGenericHealth}]
               ELSE ReplyWith("GET /health", 200, 0,
                              {"status", "timestamp", "database", "environment"})

\* The keys of the checks object of GET /auth-debug/health-debug:
\* checks.database_error = error.message when SELECT 1 fails.
DebugChecks(fails) ==
    {"timestamp", "environment", "jwt_secret", "database_url", "cors_origin",
     "database", "jwt", "bcrypt"} \cup (IF fails THEN {"database_error"} ELSE {})

\* GET /auth-debug/health-debug: res.json(checks)
HealthDebug(fails) ==
    /\ ClientReady
    /\ UNCHANGED <<users, agents, properties, reviews, contacts, favorites, favReq,
                   revReq, authVars, opsVars>>
    /\ resp' = [ReplyWith("GET /auth-debug/health-debug", 200, 0, DebugChecks(fails))
                   EXCEPT !.texts = IF "database_error" \in DebugChecks(fails)
                                    THEN {tStorageError} ELSE {}]

(***************************************************************************)
(* SpecHealth: the process runs in any mode; a user marks a property and   *)
(* reads the favorites, and the health endpoints are probed, while the     *)
(* storage engine answers or fails.                                        *)
(***************************************************************************)
InitAnyMode ==
    /\ users = <<AdminUser>>
    /\ agents = <<>>
    /\ properties = <<>>
    /\ reviews = <<>>
    /\ contacts = <<>>
    /\ favorites = <<>>
    /\ resp = NoResponse
    /\ favReq = [r \in 1..MaxFavRequests |-> IdleRequest]
    /\ revReq = [r \in 1..MaxReviewRequests |-> IdleReview]
    /\ now = 0
    /\ issued = 0
    /\ spent = {}
    /\ mail = "none"
    /\ likeReq = [r \in 1..MaxLikeRequests |-> IdleLike]
    /\ db = NotConnecting
    /\ env \in NodeEnvs

NextHealth ==
    \/ AdminCreateAgent(AdaBody)
    \/ CreateProperty(2, Body200)
    \/ Receive
    \/ PostFavorite(1, 2, 1)
    \/ FindFavorite(1)
    \/ CreateFavorite(1)
    \/ \E u \in {1, 2}, fails \in BOOLEAN : GetFavorites(u, fails)
    \/ \E fails \in BOOLEAN : HealthCheck(fails)
    \/ \E fails \in BOOLEAN : HealthDebug(fails)

SpecHealth == InitAnyMode /\ [][NextHealth]_vars

\* C21: in production mode no response body carries the storage engine's error
\* message, and none has a details field.
C21_NoStorageMessageInProduction ==
    env = "production" =>
        /\ tStorageError \notin resp.texts
        /\ "details" \notin resp.body


(***************************************************************************)
(* GET /agents: the public listing of the approved agents.                 *)
(***************************************************************************)
\* An agent with its user and its specialties; register and POST /admin/agents
\* store an empty list when the body names none.
PublicAgentRows == [i \in DOMAIN AgentRows |-> AgentRows[i] @@ ("specialties" :> {})]

\* const whereClause = { verificationStatus: 'APPROVED', ...(search && { OR }),
\* ...(location && location !== 'all' && { user }), ...(specialty &&
\* specialty !== 'all' && { specialties }) };  the alternative
\* specialties: { hasSome: [search] } is one no stored agent satisfies.
AgentsWhere(search, location, specialty) ==
    ObjectSpread(
        << "verificationStatus" :> Eq(APPROVED),
           SpreadIf(Truthy(search),
                    "OR" :> AnyContains({"user.firstName", "user.lastName"}, search.val)),
           SpreadIf(Truthy(location) /\ location.val # sAll,
                    "user" :> AnyContains({"user.firstName", "user.lastName"},
                                          location.val)),
           SpreadIf(Truthy(specialty) /\ specialty.val # sAll,
                    "specialties" :> Has(specialty.val)) >>)

\* include: { properties: { select: { id: true, status: true, price: true } } }
IncludedPriced(agentId) ==
    LET own == SelectSeq(properties, LAMBDA p : p.agentId = agentId)
    IN  [i \in DOMAIN own |->
            [id |-> own[i].id, status |-> own[i].status, price |-> own[i].price]]

\* p.reviews?.length || 0
ReviewsLength(p) == IF "reviews" \in DOMAIN p THEN Len(p.reviews) ELSE 0

\* agent.properties.reduce((sum, p) => sum + (p.reviews?.length || 0), 0)
RECURSIVE TotalReviews(_)
TotalReviews(included) ==
    IF included = <<>> THEN 0
    ELSE ReviewsLength(Head(included)) + TotalReviews(Tail(included))

\* transformedAgents of GET /agents: the counts sent for an agent.
AgentItem(agentId) ==
    [id |-> agentId,
     reviews |-> TotalReviews(IncludedPriced(agentId)),
     propertiesSold |-> CountWithStatus(IncludedPriced(agentId), SOLD)]

\* GET /agents: { agents: transformedAgents, total, hasMore }
GetAgents(search, location, specialty) ==
    LET found == FindMany(PublicAgentRows, AgentsWhere(search, location, specialty),
                          0, MaxAgents + 1, NewestFirst)
    IN  Respond([ReplyWith("GET /agents", 200, 0, {"agents", "total", "hasMore"})
                    EXCEPT !.where = AgentsWhere(search, location, specialty),
                           !.items = found,
                           !.view = [i \in DOMAIN found |-> AgentItem(found[i])],
                           !.total = Len(found)])

(***************************************************************************)
(* SpecListing: approved agents list properties and sell them, users       *)
(* review the properties, and the two agent listings are read.             *)
(***************************************************************************)
SaleBodies == {[NoUpdate EXCEPT !.status = P(SOLD)], [NoUpdate EXCEPT !.status = P(ACTIVE)]}

NextListing ==
    \/ AdminCreateAgent(BolaBody)
    \/ CreateProperty(2, Body100)
    \/ \E id \in {1, 2}, b \in SaleBodies : UpdateProperty(2, id, b)
    \/ CreateReview(1, ReviewBody(1, 0, 5))
    \/ \E search \in {Absent, P(tBola)}, location \in {Absent, P(sAll)},
          specialty \in {Absent, P(sAbc)} : GetAgents(search, location, specialty)
    \/ AdminGetAgents(NoQuery)
    \/ Receive

SpecListing == Init /\ [][NextListing]_vars

\* The properties of an agent that have a status, and the reviews on the
\* properties of an agent.
PropertiesOf(agentId, status) ==
    {p \in Rows(properties) : p.agentId = agentId /\ p.status = status}
ReviewsOnPropertiesOf(agentId) ==
    {r \in Rows(reviews) : \E p \in Rows(properties) :
                               p.agentId = agentId /\ r.propertyId = p.id}

\* C22: each item of GET /agents gives as propertiesSold the number of the
\* agent's SOLD properties and as reviews the number of reviews on the agent's
\* properties; each item of GET /admin/agents gives as currentMonthListings the
\* number of the agent's ACTIVE properties and as totalSales the number of its
\* SOLD properties.
C22_AgentCountsAreExact ==
    /\ resp.endpoint = "GET /agents" /\ resp.status = 200 =>
           \A i \in DOMAIN resp.view :
               /\ resp.view[i].propertiesSold =
                      Cardinality(PropertiesOf(resp.view[i].id, SOLD))
               /\ resp.view[i].reviews =
                      Cardinality(ReviewsOnPropertiesOf(resp.view[i].id))
    /\ resp.endpoint = "GET /admin/agents" /\ resp.status = 200 =>
           \A i \in DOMAIN resp.view :
               /\ resp.view[i].currentMonthListings =
                      Cardinality(PropertiesOf(resp.view[i].agentId, ACTIVE))
               /\ resp.view[i].totalSales =
                      Cardinality(PropertiesOf(resp.view[i].agentId, SOLD))

=============================================================================
